---------------------------- MODULE Spec2Model ----------------------------
(***************************************************************************)
(* Model of the PowerON bot: the render cache of PowerOnClient             *)
(* (poweron_bot/client.py) and the auto-update worker of PowerOnWizard     *)
(* (poweron_bot/wizard.py).                                                *)
(*                                                                         *)
(* SpecCache  : PowerOnClient.render_schedule_screenshot called by         *)
(*              coroutines of two event loops.                             *)
(* SpecCache3 : the same, with one call more.                              *)
(* SpecQuiet  : PowerOnWizard._is_quiet_hours over all its inputs.         *)
(* SpecLoop   : PowerOnWizard._auto_update_loop against every outcome of   *)
(*              _render_schedule.                                          *)
(* SpecSched  : PowerOnWizard._auto_update_loop with client.py as it is.   *)
(* SpecSettings, SpecHistory, SpecSend : the handlers of the settings, the *)
(*              history of addresses and _send_schedule.                   *)
(* SpecMirror, SpecLoad, SpecStore : UserStateStore, _load_users_payload   *)
(*              and two threads in _save_user_data.                        *)
(* SpecSweep  : PowerOnClient._cleanup_cache_files on a cache directory.   *)
(* SpecSelect : the auto_addr handler on the history of a chat.            *)
(* SpecEntry  : PowerOnWizard._build_entry_from_context.                   *)
(* SpecInterval : the worker with the handlers that set the interval,      *)
(*              from hydrated settings.                                    *)
(* SpecCrash  : SpecStore with the process ending inside a save and the    *)
(*              load of the next start.                                    *)
(***************************************************************************)
EXTENDS Integers, Sequences, FiniteSets, TLC

(***************************************************************************)
(* Constants of client.py                                                  *)
(***************************************************************************)
CACHE_TTL_SECONDS == 600
CAPTURE_RETRIES == 2
CACHE_CLEANUP_INTERVAL_SECONDS == 300
CACHE_MAX_FILES == 500
CACHE_MAX_FILE_AGE_SECONDS == 2 * 24 * 60 * 60

(***************************************************************************)
(* Constants of wizard.py                                                  *)
(***************************************************************************)
MAX_HISTORY_ITEMS == 6
AUTO_UPDATE_FAILURE_THRESHOLD == 3
AUTO_UPDATE_COOLDOWN_SECONDS == 15 * 60
\* the window of _can_notify_now
NOTIFY_WINDOW_SECONDS == 3600

(***************************************************************************)
(* Bounds of the model                                                     *)
(***************************************************************************)
MaxTicks == 2       \* clock advances of SpecCache
MaxCalls == 2       \* calls of render_schedule_screenshot in SpecCache
MaxLoopTicks == 6   \* clock advances of SpecLoop
MaxFailures == 4    \* failures counted by the worker in SpecLoop
MaxRounds == 2      \* rounds of the worker in SpecStore
MaxRequests == 2    \* schedule requests in SpecSend
MaxHouse == 6       \* houses 0 .. MaxHouse are looked up in SpecHistory
MaxHeap == 3        \* entries of the heap beyond which no chat is enabled again

\* the clock advances in steps of half a TTL
TimeStep == CACHE_TTL_SECONDS \div 2

Keys == {"1:2:3"}
Loops == {"A", "B"}
Coros == {"a1", "a2", "b1"}
LoopOf(c) == IF c = "b1" THEN "B" ELSE "A"
\* the coroutines of one loop are interchangeable: a call is made by the first
\* one that is not inside a call
Earlier(c) == IF c = "a2" THEN {"a1"} ELSE {}

\* errors _capture_from_site can raise: the retry loop catches the first two
CaughtErrors == {"PowerOnRenderError", "TimeoutError"}
UncaughtErrors == {"ImportError"}

VARIABLES
    now,        \* time.time()
    _cache,     \* PowerOnClient._cache: cache_key -> CacheRecord
    _locks,     \* PowerOnClient._locks: cache_key -> (loop, lock)
    _last_cache_cleanup_ts,  \* PowerOnClient._last_cache_cleanup_ts
    locked,     \* asyncio.Lock._locked of every lock object
    files,      \* the cache directory: path -> absent | partial | complete
    task,       \* the frame of each coroutine inside render_schedule_screenshot
    ret,        \* the latest return or raise of render_schedule_screenshot
    ncalls,     \* calls of render_schedule_screenshot made so far
    render_attempts  \* metrics["render_attempts"]

cacheVars == <<_cache, _locks, _last_cache_cleanup_ts, locked, files, task,
               ret, ncalls, render_attempts>>

VARIABLES
    auto_update,        \* PowerOnWizard.auto_update: chat_id -> settings
    history,            \* PowerOnWizard.history: chat_id -> cache keys, newest first
    _auto_update_heap,  \* PowerOnWizard._auto_update_heap: (next_run_ts, chat_id)
    feature_flags,      \* PowerOnWizard.feature_flags
    worker,             \* the auto-update thread: its position and locals
    store,              \* users.json: chat_id -> the saved history and settings
    hour0,              \* time.localtime().tm_hour at time 0
    event,              \* what the auto-update thread did last
    deliveries,         \* chat_id -> the times of the [AUTO] photos sent
    streak,             \* chat_id -> render failures since the last success
    rendered            \* chat_id -> cache_key -> what the last round rendered

loopVars == <<auto_update, history, _auto_update_heap, feature_flags, worker,
              store, hour0, event, deliveries, streak, rendered>>

VARIABLES
    quiet_call          \* one call of _is_quiet_hours: its inputs and result

VARIABLES
    _users_payload,       \* PowerOnWizard._users_payload: chat key -> record
    _users_payload_lock,  \* the thread that holds the lock, or "free"
    users_json,           \* the document data/users.json
    users_json_bak,       \* the document data/users.json.bak
    users_json_tmp,       \* the document data/users.json.tmp
    user_state,           \* the table user_state of users.sqlite: chat key -> row
    saver,                \* the frame of each thread inside _save_user_data
    store_call            \* the latest call of the persistence layer and its result

storeVars == <<_users_payload, _users_payload_lock, users_json, users_json_bak,
               users_json_tmp, user_state, saver, store_call>>

VARIABLES
    metrics,    \* PowerOnWizard.metrics
    bot,        \* what the wizard has sent through the bot: messages and photos
    send_call   \* the latest call of _send_schedule and how it ended

sendVars == <<metrics, bot, send_call>>

vars == <<now, cacheVars, loopVars, quiet_call, storeVars, sendVars>>

\* what the steps of the client, and of the worker, leave alone
notCache == <<loopVars, quiet_call, storeVars, sendVars>>
notLoop == <<cacheVars, quiet_call, storeVars, sendVars>>

(***************************************************************************)
(* client.py                                                               *)
(***************************************************************************)
\* image_path: one file per cache_key, named by the key's sha1
PathOf(k) == k \o ".png"
Paths == {PathOf(k) : k \in Keys}

CacheRecord(p, e) == [path |-> p, expires_at |-> e]

\* os.path.exists in the directory fs: a file being written exists
PathExists(fs, p) == fs[p] # "absent"

\* `cached and cached.expires_at > now and os.path.exists(cached.path)`
CacheFreshInverted(k, t, fs) ==
    /\ k \in DOMAIN _cache
    /\ _cache[k].expires_at <= t
    /\ PathExists(fs, _cache[k].path)

CacheFresh(k, t, fs) ==
    /\ k \in DOMAIN _cache
    /\ _cache[k].expires_at > t
    /\ PathExists(fs, _cache[k].path)

\* the keyword arguments the signature of render_schedule_screenshot accepts
RenderParams == {"settlement_name", "street_name", "house_name", "cache_key"}

\* a call binds: Python raises TypeError on a keyword the signature lacks
CallBinds(kwargs) == kwargs \subseteq RenderParams

LockIds == 1 .. (Cardinality(Keys) + Cardinality(Coros))
NoLock == 0

\* asyncio.Lock(): a new lock object, distinct from every lock still referenced
LocksInUse ==
    {_locks[k].lock : k \in DOMAIN _locks} \cup {task[c].lock : c \in Coros}
NewLock == CHOOSE l \in LockIds \ LocksInUse :
               \A m \in LockIds \ LocksInUse : l <= m

\* _get_lock_for_current_loop: the lock returned, and _locks afterwards
LockForLoop(k, loop) ==
    IF k \notin DOMAIN _locks
    THEN [lock |-> NewLock,
          locks |-> (k :> [loop |-> loop, lock |-> NewLock]) @@ _locks]
    ELSE IF _locks[k].loop # loop
         THEN [lock |-> NewLock,
               locks |-> [_locks EXCEPT ![k] = [loop |-> loop, lock |-> NewLock]]]
         ELSE [lock |-> _locks[k].lock, locks |-> _locks]

\* expires_at of a new CacheRecord, installed at time t
ExpiresAt(t) == t + CACHE_TTL_SECONDS

\* `for attempt in range(1, CAPTURE_RETRIES + 1)`: is there another attempt
MoreAttemptsUnbounded(attempt) == attempt <= CAPTURE_RETRIES
MoreAttempts(attempt) == attempt < CAPTURE_RETRIES

\* `last_error = exc`: last_error after an attempt raised exc
LastError(prev, exc) == exc

\* the frame of a coroutine: where it is suspended and its locals
IdleTask == [pc |-> "idle", cache_key |-> "", now |-> 0, lock |-> NoLock,
             attempt |-> 0, last_error |-> ""]

\* what a call handed to its caller: the path returned and the state of its
\* file at that moment, or the exception raised and its __cause__; renders is
\* the number of _capture_from_site calls the call made, forced and live tell
\* a call made with force_refresh and whether the record was live then
NoRet == [kind |-> "none", key |-> "", path |-> "", file |-> "absent",
          hit |-> FALSE, renders |-> 0, forced |-> FALSE, live |-> FALSE,
          cause |-> "", error |-> ""]

\* the coroutines writing the file at p
Writers(p) == {c \in Coros : task[c].pc = "writing" /\ PathOf(task[c].cache_key) = p}

\* tasks suspended in lock.acquire() of lock l
Waiters(l) == {c \in Coros : task[c].pc = "waiting" /\ task[c].lock = l}

\* _cleanup_cache_files at time t: runs at most once per
\* CACHE_CLEANUP_INTERVAL_SECONDS
CleanupDue(t) == ~(t - _last_cache_cleanup_ts < CACHE_CLEANUP_INTERVAL_SECONDS)

\* the directory after _cleanup_cache_files; over is the set of files the
\* sweep finds beyond the CACHE_MAX_FILES newest (the files of other keys
\* fill the directory).  A file being written has the newest mtime.
Swept(t, over) ==
    IF CleanupDue(t)
    THEN [p \in Paths |->
            IF p \in over /\ Writers(p) = {} THEN "absent" ELSE files[p]]
    ELSE files

CacheStart ==
    /\ _cache = <<>>
    /\ _locks = <<>>
    /\ _last_cache_cleanup_ts = 0
    /\ locked = [l \in LockIds |-> FALSE]
    /\ files = [p \in Paths |-> "absent"]
    /\ task = [c \in Coros |-> IdleTask]
    /\ ret = NoRet
    /\ ncalls = 0
    /\ render_attempts = 0

\* `return cached.path` / `return image_path`, after n renderer calls
ReturnPath(k, p, isHit, fs, n) ==
    ret' = [NoRet EXCEPT !.kind = "path", !.key = k, !.path = p,
                         !.file = fs[p], !.hit = isHit, !.renders = n]

\* lines 236-249, reached with the lock held: the check inside the lock, made
\* with the `now` of the call; on a miss the first attempt starts and the
\* task awaits _capture_from_site
InsideLock(c, k, t, l, fs) ==
    IF CacheFresh(k, t, fs)
    THEN /\ ReturnPath(k, _cache[k].path, TRUE, fs, 0)
         /\ locked' = [locked EXCEPT ![l] = FALSE]
         /\ task' = [task EXCEPT ![c] = IdleTask]
         /\ UNCHANGED render_attempts
    ELSE /\ locked' = [locked EXCEPT ![l] = TRUE]
         /\ render_attempts' = render_attempts + 1
         /\ task' = [task EXCEPT ![c] = [IdleTask EXCEPT !.pc = "capturing",
                                                         !.cache_key = k,
                                                         !.now = t,
                                                         !.lock = l,
                                                         !.attempt = 1]]
         /\ UNCHANGED ret

\* render_schedule_screenshot up to its first suspension (lines 225-249): the
\* binding of the arguments, _cleanup_cache_files, the fast path,
\* _get_lock_for_current_loop and lock.acquire(), which suspends the task when
\* the lock is held
Call(c, k, kwargs, over) ==
    /\ task[c].pc = "idle"
    /\ \A d \in Earlier(c) : task[d].pc # "idle"
    /\ ncalls' = ncalls + 1
    /\ IF ~CallBinds(kwargs)
       THEN /\ ret' = [NoRet EXCEPT !.kind = "TypeError", !.key = k,
                                     !.forced = TRUE,
                                     !.live = CacheFresh(k, now, files)]
            /\ UNCHANGED <<task, _locks, locked, render_attempts, files,
                           _last_cache_cleanup_ts>>
       ELSE LET fs == Swept(now, over) IN
            /\ files' = fs
            /\ _last_cache_cleanup_ts' =
                  IF CleanupDue(now) THEN now ELSE _last_cache_cleanup_ts
            /\ IF CacheFresh(k, now, fs)
               THEN /\ ReturnPath(k, _cache[k].path, TRUE, fs, 0)
                    /\ UNCHANGED <<task, _locks, locked, render_attempts>>
               ELSE LET got == LockForLoop(k, LoopOf(c)) IN
                    /\ _locks' = got.locks
                    /\ IF ~locked[got.lock] /\ Waiters(got.lock) = {}
                       THEN InsideLock(c, k, now, got.lock, fs)
                       ELSE /\ task' = [task EXCEPT ![c] =
                                           [IdleTask EXCEPT !.pc = "waiting",
                                                            !.cache_key = k,
                                                            !.now = now,
                                                            !.lock = got.lock]]
                            /\ UNCHANGED <<ret, locked, render_attempts>>
    /\ UNCHANGED <<now, _cache>>

\* lock.acquire() of a suspended task returns once the lock is released
Wake(c) ==
    /\ task[c].pc = "waiting"
    /\ ~locked[task[c].lock]
    /\ InsideLock(c, task[c].cache_key, task[c].now, task[c].lock, files)
    /\ UNCHANGED <<now, _cache, _locks, _last_cache_cleanup_ts, files, ncalls>>

\* _capture_from_site: page.screenshot(path=image_path) starts writing the file
WriteBegin(c) ==
    /\ task[c].pc = "capturing"
    /\ files' = [files EXCEPT ![PathOf(task[c].cache_key)] = "partial"]
    /\ task' = [task EXCEPT ![c].pc = "writing"]
    /\ UNCHANGED <<now, _cache, _locks, _last_cache_cleanup_ts, locked, ret,
                   ncalls, render_attempts>>

\* page.screenshot has written the file; the task awaits browser.close()
WriteEnd(c) ==
    /\ task[c].pc = "writing"
    /\ LET p == PathOf(task[c].cache_key) IN
       files' = [files EXCEPT ![p] =
                    IF Writers(p) = {c} THEN "complete" ELSE "partial"]
    /\ task' = [task EXCEPT ![c].pc = "written"]
    /\ UNCHANGED <<now, _cache, _locks, _last_cache_cleanup_ts, locked, ret,
                   ncalls, render_attempts>>

\* lines 250-252: _capture_from_site returned; install the record, return
Publish(c) ==
    /\ task[c].pc = "written"
    /\ LET k == task[c].cache_key IN
       /\ _cache' = (k :> CacheRecord(PathOf(k), ExpiresAt(now))) @@ _cache
       /\ ReturnPath(k, PathOf(k), FALSE, files, task[c].attempt)
    /\ locked' = [locked EXCEPT ![task[c].lock] = FALSE]
    /\ task' = [task EXCEPT ![c] = IdleTask]
    /\ UNCHANGED <<now, _locks, _last_cache_cleanup_ts, files, ncalls,
                   render_attempts>>

\* lines 253-262: the attempt raised an error the retry loop catches; after
\* the last attempt `raise PowerOnRenderError(...) from last_error`
CaptureFail(c, e) ==
    /\ task[c].pc \in {"capturing", "writing"}
    /\ LET last_error == LastError(task[c].last_error, e) IN
       IF MoreAttempts(task[c].attempt)
       THEN /\ task' = [task EXCEPT ![c].pc = "backoff",
                                    ![c].last_error = last_error]
            /\ UNCHANGED <<ret, locked>>
       ELSE /\ ret' = [NoRet EXCEPT
                         !.kind = "PowerOnRenderError",
                         !.key = task[c].cache_key,
                         !.renders = task[c].attempt,
                         !.cause = last_error,
                         !.error = e]
            /\ locked' = [locked EXCEPT ![task[c].lock] = FALSE]
            /\ task' = [task EXCEPT ![c] = IdleTask]
    /\ UNCHANGED <<now, _cache, _locks, _last_cache_cleanup_ts, files, ncalls,
                   render_attempts>>

\* the attempt raised an error the retry loop does not catch: it propagates
CaptureRaise(c, e) ==
    /\ task[c].pc \in {"capturing", "writing"}
    /\ ret' = [NoRet EXCEPT !.kind = e, !.key = task[c].cache_key,
                            !.renders = task[c].attempt]
    /\ locked' = [locked EXCEPT ![task[c].lock] = FALSE]
    /\ task' = [task EXCEPT ![c] = IdleTask]
    /\ UNCHANGED <<now, _cache, _locks, _last_cache_cleanup_ts, files, ncalls,
                   render_attempts>>

\* line 258 and 245-249: asyncio.sleep(0.75 * attempt) ends, the next attempt
Retry(c) ==
    /\ task[c].pc = "backoff"
    /\ task' = [task EXCEPT ![c].pc = "capturing", ![c].attempt = @ + 1]
    /\ render_attempts' = render_attempts + 1
    /\ UNCHANGED <<now, _cache, _locks, _last_cache_cleanup_ts, locked, files,
                   ret, ncalls>>

\* time passes
Advance ==
    /\ now < MaxTicks * TimeStep
    /\ now' = now + TimeStep
    /\ UNCHANGED cacheVars


(***************************************************************************)
(* wizard.py: the auto-update worker                                       *)
(***************************************************************************)
Chats == {1}
\* what _file_signature can return for a rendered image
Signatures == {"s1", "s2"}
\* the clock of the worker advances in steps of a third of the cooldown
LoopStep == AUTO_UPDATE_COOLDOWN_SECONDS \div 3
\* SpecLoop starts two steps before a photo sent at time 0 leaves the window
StartTime == NOTIFY_WINDOW_SECONDS - 2 * LoopStep

\* Python's `x or d` on an int: 0 is falsy
OrDefault(x, d) == IF x = 0 THEN d ELSE x

\* time.localtime().tm_hour at time t
HourAt(t) == (hour0 + (t \div 3600)) % 24

\* _is_quiet_hours, for the quiet_hours dict of the settings and the hour
_is_quiet_hours(quiet, hour) ==
    IF ~quiet.enabled THEN FALSE
    ELSE LET start == OrDefault(quiet.start, 23)
             end == OrDefault(quiet.end, 7)
         IN IF start = end THEN FALSE
            ELSE IF start < end THEN start <= hour /\ hour < end
            ELSE hour >= start \/ hour < end

\* `[ts for ts in notify_timestamps if now - ts < 3600]`
RecentKeepsAll(stamps, t) == stamps
Recent(stamps, t) ==
    SelectSeq(stamps, LAMBDA ts : t - ts < NOTIFY_WINDOW_SECONDS)

\* `max(1, int(settings.get("max_per_hour", 4) or 4))`
MaxPerHour(settings) ==
    LET m == OrDefault(settings.max_per_hour, 4) IN IF m < 1 THEN 1 ELSE m

\* _can_notify_now at time t: the answer, and notify_timestamps as it leaves them
_can_notify_now(settings, t) ==
    LET timestamps == Recent(settings.notify_timestamps, t) IN
    [timestamps |-> timestamps,
     ok |-> /\ ~(Len(timestamps) >= MaxPerHour(settings))
            /\ ~_is_quiet_hours(settings.quiet_hours, HourAt(t))]

\* _default_auto_update_settings
DefaultSettings ==
    [enabled |-> FALSE, interval |-> 60, silent |-> TRUE,
     last_signature |-> "", last_signatures |-> <<>>, selected_keys |-> <<>>,
     next_run_ts |-> 0,
     quiet_hours |-> [enabled |-> TRUE, start |-> 23, end |-> 7],
     max_per_hour |-> 4, notify_timestamps |-> <<>>, failures |-> 0,
     text_mode_until |-> 0]

\* heapq: the heap as the sorted list of its entries <<next_run_ts, chat_id>>
EntryLess(a, b) == a[1] < b[1] \/ (a[1] = b[1] /\ a[2] < b[2])
HeapPush(heap, e) ==
    LET n == Cardinality({i \in 1..Len(heap) : ~EntryLess(e, heap[i])}) IN
    SubSeq(heap, 1, n) \o <<e>> \o SubSeq(heap, n + 1, Len(heap))

\* `max(10, int(settings.get("interval", 60) or 60))`
IntervalNone(settings) == 0
IntervalOf(settings) ==
    LET i == OrDefault(settings.interval, 60) IN IF i < 10 THEN 10 ELSE i

\* _schedule_auto_update(chat_id) at time t, for settings s: the settings and
\* the heap afterwards
ScheduleWithoutPush(c, s, heap, t) == [settings |-> s, heap |-> heap]
_schedule_auto_update(c, s, heap, t) ==
    IF ~s.enabled THEN [settings |-> s, heap |-> heap]
    ELSE LET next_ts == IF s.next_run_ts = 0 THEN t + IntervalOf(s)
                        ELSE s.next_run_ts
         IN [settings |-> [s EXCEPT !.next_run_ts = next_ts],
             heap |-> HeapPush(heap, <<next_ts, c>>)]

\* a list without its repeated elements, first occurrences kept
RECURSIVE Unique(_)
Unique(seq) ==
    IF seq = <<>> THEN <<>>
    ELSE LET init == Unique(SubSeq(seq, 1, Len(seq) - 1))
             last == seq[Len(seq)]
         IN IF \E i \in 1..Len(init) : init[i] = last THEN init
            ELSE Append(init, last)

Take(seq, n) == SubSeq(seq, 1, IF Len(seq) < n THEN Len(seq) ELSE n)

\* _auto_update_candidates: pinned + history, unique by cache_key; no address
\* is pinned in this model
_auto_update_candidates(c) == Take(Unique(history[c]), MAX_HISTORY_ITEMS)

\* lines 951-961: the addresses one run of the loop checks
Candidates(c, settings) ==
    LET selected_keys == {settings.selected_keys[i] :
                              i \in 1..Len(settings.selected_keys)}
        chosen == IF selected_keys # {}
                  THEN SelectSeq(_auto_update_candidates(c),
                                 LAMBDA k : k \in selected_keys)
                  ELSE Take(history[c], 1)
    IN IF feature_flags.multi_address_auto
       THEN Take(chosen, MAX_HISTORY_ITEMS)
       ELSE Take(chosen, 1)

\* _upsert_history without the filter of line 464
UpsertWithoutFilter(hist, k) == Take(<<k>> \o hist, MAX_HISTORY_ITEMS)

\* _upsert_history: the history with the entry moved to the front
_upsert_history(hist, k) ==
    Take(<<k>> \o SelectSeq(hist, LAMBDA e : e # k), MAX_HISTORY_ITEMS)

\* _save_user_data: what users.json holds for the chat afterwards
Saved(hist, settings) ==
    [history |-> Take(hist, MAX_HISTORY_ITEMS), auto_update |-> settings]

\* the keyword arguments _render_schedule passes to render_schedule_screenshot
RenderCallKwargs == RenderParams \cup {"force_refresh"}

\* what a call of _render_schedule can do: return the signature of the image,
\* or raise
RenderOutcomes == Signatures \cup {"raise"}
\* with client.py as it is the call does not bind, and raises TypeError
ShippedOutcomes == IF CallBinds(RenderCallKwargs) THEN RenderOutcomes ELSE {"raise"}

\* what _deliver_schedule can do: send both messages, or raise in either
DeliverOutcomes == {"sent", "send_photo raises", "send_message raises"}

IdleWorker == [pc |-> "sleep", chat |-> 0, items |-> <<>>]
NoEvent == [seq |-> 0, kind |-> "none", chat |-> 0, key |-> ""]
Emit(kind, c, k) ==
    event' = [seq |-> 1 - event.seq, kind |-> kind, chat |-> c, key |-> k]

\* line 986: `signatures.get(entry_key, settings.get("last_signature", ""))`
PreviousSig(settings, entry_key) ==
    IF entry_key \in DOMAIN settings.last_signatures
    THEN settings.last_signatures[entry_key]
    ELSE settings.last_signature

\* the addresses of the subscribers' histories
WatchedKeys == {"1:2:3", "1:2:4"}
\* the round before rendered no image for the address
NoRender == [sig |-> "", ok |-> FALSE]

\* line 944: `float(settings.get("next_run_ts", 0) or 0) > next_run_ts + 0.001`;
\* the times of the model are whole seconds, where the 0.001 changes nothing
StaleNever(settings, next_run_ts) == FALSE
Stale(settings, next_run_ts) == settings.next_run_ts > next_run_ts

\* line 936: `if next_run_ts > now`, the entry popped is not due at time t
NotDueNever(next_run_ts, t) == FALSE
NotDue(next_run_ts, t) == next_run_ts > t

\* line 989 false: lines 990-996 are skipped and the settings stay
UnnotifiedRecorded(settings, entry_key, signature) ==
    [settings EXCEPT !.last_signatures = (entry_key :> signature) @@ @,
                     !.last_signature = signature]
Unnotified(settings, entry_key, signature) == settings

\* line 975: failures after one more failed render
FailuresStuck(failures) == failures
FailuresAfterFailure(failures) == failures + 1

\* line 970: the cooldown is open at time t
CooldownNever(settings, t) == FALSE
CooldownOpen(settings, t) == settings.text_mode_until > t

\* lines 929-964: one round of the loop after time.sleep(0.5): pop the entry
\* with the least next_run_ts, put it back when it is not due, drop it when
\* the chat is disabled or the entry is stale, else requeue the chat at
\* now + interval and collect the addresses to check
Tick ==
    /\ worker.pc = "sleep"
    /\ _auto_update_heap # <<>>
    /\ LET next_run_ts == Head(_auto_update_heap)[1]
           chat_id == Head(_auto_update_heap)[2]
           popped == Tail(_auto_update_heap)
           settings == auto_update[chat_id]
       IN IF NotDue(next_run_ts, now)
          THEN \* line 937: the entry popped is pushed back
               /\ _auto_update_heap' = HeapPush(popped, Head(_auto_update_heap))
               /\ UNCHANGED <<auto_update, worker, store, event>>
          ELSE IF ~settings.enabled \/ Stale(settings, next_run_ts)
          THEN /\ _auto_update_heap' = popped
               /\ Emit("dropped", chat_id, "")
               /\ UNCHANGED <<auto_update, worker, store>>
          ELSE LET due == [settings EXCEPT
                              !.next_run_ts = now + IntervalOf(settings)]
                   queued == _schedule_auto_update(chat_id, due, popped, now)
                   candidates == Candidates(chat_id, queued.settings)
               IN /\ auto_update' = [auto_update EXCEPT ![chat_id] = queued.settings]
                  /\ _auto_update_heap' = queued.heap
                  /\ Emit("round", chat_id, "")
                  /\ IF candidates = <<>>
                     THEN /\ store' = [store EXCEPT ![chat_id] =
                                          Saved(history[chat_id], queued.settings)]
                          /\ UNCHANGED worker
                     ELSE /\ worker' = [pc |-> "item", chat |-> chat_id,
                                        items |-> candidates]
                          /\ UNCHANGED store
    /\ UNCHANGED <<now, history, feature_flags, hour0, deliveries, streak,
                   rendered>>

\* the log of the photos sent, with one more sent at time t; a photo sent
\* NOTIFY_WINDOW_SECONDS or more before t shares no window of that length
\* with a later one, and leaves the log
Logged(log, t) ==
    Append(SelectSeq(log, LAMBDA ts : ts > t - NOTIFY_WINDOW_SECONDS), t)

\* the worker after the body of the `for item in candidates` loop
NextItem == IF Len(worker.items) > 1
            THEN [worker EXCEPT !.items = Tail(@)]
            ELSE [worker EXCEPT !.pc = "save", !.items = <<>>]

\* lines 966-996: the body of `for item in candidates`, for the outcome of
\* _render_schedule and of _deliver_schedule
Item(outcome, sent) ==
    /\ worker.pc = "item"
    /\ outcome = "raise" => auto_update[worker.chat].failures < MaxFailures
    /\ LET c == worker.chat
           entry_key == Head(worker.items)
           settings == auto_update[c]
       IN IF CooldownOpen(settings, now)
          THEN /\ Emit("skipped", c, entry_key)
               /\ worker' = NextItem
               /\ UNCHANGED <<auto_update, history, store, deliveries, streak>>
          ELSE IF outcome = "raise"
          THEN LET failures == FailuresAfterFailure(settings.failures)
                   opens == /\ failures >= AUTO_UPDATE_FAILURE_THRESHOLD
                            /\ feature_flags.text_mode_cooldown
               IN /\ auto_update' = [auto_update EXCEPT ![c] =
                        [settings EXCEPT
                            !.failures = failures,
                            !.text_mode_until =
                                IF opens THEN now + AUTO_UPDATE_COOLDOWN_SECONDS
                                ELSE @]]
                  /\ Emit("render_failed", c, entry_key)
                  /\ streak' = [streak EXCEPT ![c] = @ + 1]
                  /\ worker' = NextItem
                  /\ UNCHANGED <<history, store, deliveries>>
          ELSE LET signature == outcome
                   reset == [settings EXCEPT !.failures = 0]
                   previous_sig == PreviousSig(settings, entry_key)
                   changed == signature # previous_sig
                   always_notify == ~settings.silent
                   gate == _can_notify_now(reset, now)
                   pruned == [reset EXCEPT !.notify_timestamps = gate.timestamps]
               IN /\ streak' = [streak EXCEPT ![c] = 0]
                  /\ IF ~(changed \/ always_notify)
                     THEN /\ auto_update' = [auto_update EXCEPT ![c] = reset]
                          /\ Emit("rendered", c, entry_key)
                          /\ worker' = NextItem
                          /\ UNCHANGED <<history, store, deliveries>>
                     ELSE IF ~gate.ok
                     THEN /\ auto_update' = [auto_update EXCEPT ![c] =
                                Unnotified(pruned, entry_key, signature)]
                          /\ Emit("denied", c, entry_key)
                          /\ worker' = NextItem
                          /\ UNCHANGED <<history, store, deliveries>>
                     ELSE IF sent # "sent"
                     THEN \* the exception leaves _auto_update_loop: the thread ends
                          /\ auto_update' = [auto_update EXCEPT ![c] = pruned]
                          /\ Emit("deliver_failed", c, entry_key)
                          /\ deliveries' =
                                IF sent = "send_message raises"
                                THEN [deliveries EXCEPT ![c] = Logged(@, now)]
                                ELSE deliveries
                          /\ worker' = [worker EXCEPT !.pc = "dead"]
                          /\ UNCHANGED <<history, store>>
                     ELSE LET after == [pruned EXCEPT
                                  !.notify_timestamps = Append(@, now),
                                  !.last_signatures =
                                      (entry_key :> signature) @@ @,
                                  !.last_signature = signature]
                              hist == _upsert_history(history[c], entry_key)
                          IN /\ auto_update' = [auto_update EXCEPT ![c] = after]
                             /\ history' = [history EXCEPT ![c] = hist]
                             /\ store' = [store EXCEPT ![c] = Saved(hist, after)]
                             /\ deliveries' = [deliveries EXCEPT ![c] = Logged(@, now)]
                             /\ Emit("delivered", c, entry_key)
                             /\ worker' = NextItem
    /\ rendered' = [rendered EXCEPT ![worker.chat][Head(worker.items)] =
                       IF CooldownOpen(auto_update[worker.chat], now)
                          \/ outcome = "raise"
                       THEN NoRender
                       ELSE [sig |-> outcome,
                             ok |-> _can_notify_now(auto_update[worker.chat], now).ok]]
    /\ UNCHANGED <<now, _auto_update_heap, feature_flags, hour0>>

\* line 997: _save_user_data(chat_id) after the last candidate
Save ==
    /\ worker.pc = "save"
    /\ store' = [store EXCEPT ![worker.chat] =
                    Saved(history[worker.chat], auto_update[worker.chat])]
    /\ worker' = IdleWorker
    /\ UNCHANGED <<now, auto_update, history, _auto_update_heap, feature_flags,
                   hour0, event, deliveries, streak, rendered>>

\* main.py, admin:flag_toggle: `feature_flags[name] = not feature_flags[name]`
ToggleFlag(name) ==
    /\ feature_flags' = [feature_flags EXCEPT ![name] = ~@]
    /\ UNCHANGED <<now, auto_update, history, _auto_update_heap, worker, store,
                   hour0, event, deliveries, streak, rendered>>

\* handle_callback, "poweron:auto_on:<interval>" (lines 779-791): the chat is
\* enabled with next_run_ts = now + interval, queued and saved
AutoOn(c, seconds) ==
    /\ Len(_auto_update_heap) < MaxHeap
    /\ LET interval == IF seconds < 10 THEN 10 ELSE seconds
           settings == [auto_update[c] EXCEPT !.enabled = TRUE,
                                              !.interval = interval,
                                              !.next_run_ts = now + interval]
           queued == _schedule_auto_update(c, settings, _auto_update_heap, now)
       IN /\ auto_update' = [auto_update EXCEPT ![c] = queued.settings]
          /\ _auto_update_heap' = queued.heap
          /\ store' = [store EXCEPT ![c] = Saved(history[c], queued.settings)]
    /\ UNCHANGED <<now, history, feature_flags, worker, hour0, event,
                   deliveries, streak, rendered>>

\* handle_callback, "poweron:auto_off" (lines 756-763): the chat is disabled
\* with next_run_ts = 0 and saved; the heap is not touched
AutoOff(c) ==
    /\ LET settings == [auto_update[c] EXCEPT !.enabled = FALSE,
                                              !.next_run_ts = 0]
       IN /\ auto_update' = [auto_update EXCEPT ![c] = settings]
          /\ store' = [store EXCEPT ![c] = Saved(history[c], settings)]
    /\ UNCHANGED <<now, history, _auto_update_heap, feature_flags, worker,
                   hour0, event, deliveries, streak, rendered>>

\* time passes while the worker sleeps with no entry due: the loop polls
\* every 0.5 s, and a round ends within one step of the clock
AdvanceLoop ==
    /\ now < StartTime + MaxLoopTicks * LoopStep
    /\ worker.pc \in {"sleep", "dead"}
    /\ worker.pc = "sleep" =>
          IF _auto_update_heap = <<>> THEN TRUE
          ELSE Head(_auto_update_heap)[1] > now
    /\ now' = now + LoopStep
    /\ UNCHANGED loopVars


\* the cache keys of the addresses a subscriber looks up, as in
\* test_history_limit_is_six
HistoryKeys == {"1:2:" \o ToString(i) : i \in 0 .. MaxHouse}

\* _upsert_history(chat_id, item), lines 461-467, with the save of line 467
UpsertHistory(c, k) ==
    LET hist == _upsert_history(history[c], k) IN
    /\ history' = [history EXCEPT ![c] = hist]
    /\ store' = [store EXCEPT ![c] = Saved(hist, auto_update[c])]
    /\ Emit(IF \E i \in 1 .. Len(history[c]) : history[c][i] = k THEN "moved"
            ELSE IF Len(history[c]) = MAX_HISTORY_ITEMS THEN "dropped"
            ELSE "added", c, k)
    /\ UNCHANGED <<now, auto_update, _auto_update_heap, feature_flags, worker,
                   hour0, deliveries, streak, rendered>>

(***************************************************************************)
(* wizard.py: an interactive schedule request                              *)
(***************************************************************************)
\* a call of the bot: what was sent
Message(method, text, gpv, link, reason) ==
    [method |-> method, text |-> text, gpv |-> gpv, link |-> link,
     reason |-> reason]
ManualLink == "https://poweron.toe.com.ua/"

\* the entries _build_entry_from_context returns: the cache key and the
\* schedule of the house ("" when the API gave no "gpv")
Entries == [cache_key : WatchedKeys, gpv : {"", "1"}]

\* what _render_schedule does in a request: raise PowerOnClientError, raise
\* another exception, return None, or return the image with its signature
SendRenders == {"PowerOnClientError", "Exception", "None", "s1", "s2"}

\* the dash and the reasons stand for the texts of lines 1095, 1131 and 1148
\* the state of a call of _send_schedule: the counters, the messages sent,
\* and whether an exception is on its way to the caller
Frame(m, sent, raised) == [metrics |-> m, bot |-> sent, raised |-> raised]

\* _send_text_fallback without the count of line 1084
FallbackUncounted(frame, entry, reason, telegram) ==
    IF telegram = "down" THEN Frame(frame.metrics, frame.bot, TRUE)
    ELSE Frame(frame.metrics,
               Append(frame.bot,
                      Message("send_message", "fallback",
                              IF entry.gpv = "" THEN "-" ELSE entry.gpv,
                              ManualLink, reason)),
               FALSE)

\* _send_text_fallback, lines 1083-1099: the count, then one message with
\* the GPV code of the entry's schedule and the link; bot.send_message raises
\* when Telegram cannot be reached
_send_text_fallback(frame, entry, reason, telegram) ==
    LET m == [frame.metrics EXCEPT !.text_fallbacks = @ + 1] IN
    IF telegram = "down" THEN Frame(m, frame.bot, TRUE)
    ELSE Frame(m,
               Append(frame.bot,
                      Message("send_message", "fallback",
                              IF entry.gpv = "" THEN "-" ELSE entry.gpv,
                              ManualLink, reason)),
               FALSE)

\* _send_schedule, lines 1120-1148, up to the end of _deliver_schedule: the
\* frame afterwards, and whether the schedule was delivered
_send_schedule(m0, entry, show_wait, render, deliver, telegram) ==
    LET m == [m0 EXCEPT !.schedule_requests = @ + 1]
        failed(frame, reason) ==
            [frame |-> _send_text_fallback(
                          Frame([frame.metrics EXCEPT !.schedule_failures = @ + 1],
                                frame.bot, FALSE),
                          entry, reason, telegram),
             delivered |-> FALSE,
             render |-> IF frame.raised THEN "not reached" ELSE render]
        \* lines 1124-1125
        waited == IF ~show_wait THEN Frame(m, <<>>, FALSE)
                  ELSE IF telegram = "down" THEN Frame(m, <<>>, TRUE)
                  ELSE Frame(m, <<Message("send_message", "wait", "", "", "")>>,
                             FALSE)
        photo == Message("send_photo", "schedule", "", "", "")
        codes == Message("send_message", "codes",
                         IF entry.gpv = "" THEN "-" ELSE entry.gpv, "", "")
    IN
    IF waited.raised THEN failed(waited, "unexpected")
    ELSE IF render = "PowerOnClientError" THEN failed(waited, "boom")
    ELSE IF render = "Exception" THEN failed(waited, "unexpected")
    ELSE IF render = "None" THEN failed(waited, "no data")
    ELSE IF telegram = "down" \/ deliver = "send_photo raises"
    THEN [failed(Frame(m, waited.bot, TRUE), "unexpected")
             EXCEPT !.render = render]
    ELSE IF deliver = "send_message raises"
    THEN [failed(Frame(m, Append(waited.bot, photo), TRUE),
                 "unexpected") EXCEPT !.render = render]
    ELSE [frame |-> Frame([m EXCEPT !.schedule_success = @ + 1],
                          waited.bot \o <<photo, codes>>, FALSE),
          delivered |-> TRUE,
          render |-> render]

\* a request of subscriber c for the schedule of an address
SendSchedule(c, entry, show_wait, render, deliver, telegram) ==
    /\ metrics.schedule_requests < MaxRequests
    /\ LET done == _send_schedule(metrics, entry, show_wait, render, deliver,
                                  telegram)
           hist == _upsert_history(history[c], entry.cache_key)
           after == [auto_update[c] EXCEPT !.last_signature = render]
       IN /\ metrics' = done.frame.metrics
          /\ bot' = done.frame.bot
          /\ send_call' = [called |-> TRUE, chat |-> c, entry |-> entry,
                           render |-> done.render, telegram |-> telegram,
                           raised |-> done.frame.raised]
          /\ IF done.delivered
             THEN /\ history' = [history EXCEPT ![c] = hist]
                  /\ auto_update' = [auto_update EXCEPT ![c] = after]
                  /\ store' = [store EXCEPT ![c] = Saved(hist, after)]
             ELSE UNCHANGED <<history, auto_update, store>>
    /\ UNCHANGED <<now, _auto_update_heap, feature_flags, worker, hour0, event,
                   deliveries, streak, rendered>>

(***************************************************************************)
(* storage.py: UserStateStore, the table user_state of users.sqlite        *)
(***************************************************************************)
\* str(chat_id) of the subscribers
ChatKeys == {"1", "2"}

\* the fields of the auto_update dicts of these documents, in the order the
\* dict holds them; their values are integers
DictFields == <<"interval", "next_run_ts", "failures">>
\* the integers the documents hold
JsonInts == 0 .. 99

\* the items of a list with the separator between them
RECURSIVE Joined(_, _)
Joined(items, sep) ==
    IF Len(items) <= 1 THEN items
    ELSE <<items[1], sep>> \o Joined(Tail(items), sep)

\* json.dumps of a list of strings, as the tokens of the text
DumpsList(l) == <<"[">> \o Joined(l, ",") \o <<"]">>

\* json.dumps of a dict of integers
RECURSIVE DumpsItems(_, _)
DumpsItems(fields, d) ==
    IF fields = <<>> THEN <<>>
    ELSE <<fields[1], ":", ToString(d[fields[1]])>>
         \o (IF Len(fields) = 1 THEN <<>> ELSE <<",">>)
         \o DumpsItems(Tail(fields), d)
DumpsDict(d) ==
    <<"{">> \o DumpsItems(SelectSeq(DictFields, LAMBDA f : f \in DOMAIN d), d)
            \o <<"}">>

\* int(text) of a JSON number
IntOf == [s \in {ToString(n) : n \in JsonInts} |->
             CHOOSE n \in JsonInts : ToString(n) = s]

\* a text json.loads reads without a JSONDecodeError
Decodes(text, open, close) ==
    /\ Len(text) >= 2
    /\ text[1] = open
    /\ text[Len(text)] = close

\* json.loads of the text of a list, and of a dict
LoadsList(text) == [i \in 1 .. ((Len(text) - 1) \div 2) |-> text[2 * i]]
LoadsDict(text) ==
    LET n == (Len(text) - 1) \div 4
        at(k) == CHOOSE i \in 1 .. n : text[4 * i - 2] = k
    IN [k \in {text[4 * i - 2] : i \in 1 .. n} |-> IntOf[text[4 * at(k)]]]

\* `user_payload.get(field) or default`
GetOr(user_payload, field, default) ==
    IF field \in DOMAIN user_payload THEN user_payload[field] ELSE default

\* the values replace_all and upsert_chat insert for one record
RowOf(user_payload) ==
    [seen |-> IF GetOr(user_payload, "seen", FALSE) THEN 1 ELSE 0,
     history_json |-> DumpsList(GetOr(user_payload, "history", <<>>)),
     pinned_json |-> DumpsList(GetOr(user_payload, "pinned", <<>>)),
     auto_update_json |-> DumpsDict(GetOr(user_payload, "auto_update", <<>>))]

\* `text or "[]"`
OrText(text, default) == IF text = <<>> THEN default ELSE text

\* load_all, lines 42-51: the rows whose three texts decode
RowDecodes(row) ==
    /\ Decodes(OrText(row.history_json, <<"[", "]">>), "[", "]")
    /\ Decodes(OrText(row.pinned_json, <<"[", "]">>), "[", "]")
    /\ Decodes(OrText(row.auto_update_json, <<"{", "}">>), "{", "}")
RecordOf(row) ==
    [seen |-> row.seen # 0,
     history |-> LoadsList(OrText(row.history_json, <<"[", "]">>)),
     pinned |-> LoadsList(OrText(row.pinned_json, <<"[", "]">>)),
     auto_update |-> LoadsDict(OrText(row.auto_update_json, <<"{", "}">>))]

\* load_all: the payload read from the table
load_all(table) ==
    [k \in {key \in DOMAIN table : RowDecodes(table[key])} |->
        RecordOf(table[k])]

\* replace_all: DELETE FROM user_state, then one INSERT for each record
ReplaceAllKeepsRows(table, payload) ==
    [k \in DOMAIN table \cup DOMAIN payload |->
        IF k \in DOMAIN payload THEN RowOf(payload[k]) ELSE table[k]]
replace_all(table, payload) ==
    [k \in DOMAIN payload |-> RowOf(payload[k])]

\* upsert_chat: INSERT ... ON CONFLICT(chat_id) DO UPDATE
upsert_chat(table, chat_key, user_payload) ==
    [k \in DOMAIN table \cup {chat_key} |->
        IF k = chat_key THEN RowOf(user_payload) ELSE table[k]]

\* records of subscribers: a new one, two with history and settings, and one
\* that lacks the fields pinned and auto_update
EmptyRecord ==
    [seen |-> FALSE, history |-> <<>>, pinned |-> <<>>, auto_update |-> <<>>]
Records ==
    {EmptyRecord,
     [seen |-> TRUE, history |-> <<"1:2:3", "1:2:4">>, pinned |-> <<"1:2:4">>,
      auto_update |-> [interval |-> 60, next_run_ts |-> 0, failures |-> 0]],
     [seen |-> TRUE, history |-> <<"1:2:3">>, pinned |-> <<>>,
      auto_update |-> [interval |-> 10, next_run_ts |-> 70, failures |-> 2]]}
ShortRecord == [seen |-> TRUE, history |-> <<"1:2:3">>]

\* a well-formed subscriber map: string ids, records with the four fields
WellFormed(payload) ==
    /\ DOMAIN payload \subseteq ChatKeys
    /\ \A k \in DOMAIN payload : payload[k] \in Records

\* the maps of the model
MapsOver(records) ==
    UNION {[keys -> records] : keys \in SUBSET ChatKeys}
Payloads == MapsOver(Records \cup {ShortRecord})

\* what the table can hold before: nothing, rows of earlier saves, and a row
\* whose history text is not JSON
Tables ==
    {replace_all(<<>>, payload) : payload \in MapsOver({EmptyRecord, ShortRecord})}
    \cup {("2" :> [RowOf(EmptyRecord) EXCEPT !.history_json = <<"<html>">>])}

NoStoreCall == [op |-> "none", payload |-> <<>>, raised |-> FALSE, result |-> <<>>]

\* the persistence layer before any call
StoreParked ==
    /\ _users_payload = <<>>
    /\ _users_payload_lock = "free"
    /\ users_json = [kind |-> "missing", map |-> <<>>]
    /\ users_json_bak = [kind |-> "missing", map |-> <<>>]
    /\ users_json_tmp = [kind |-> "missing", map |-> <<>>]
    /\ user_state = <<>>
    /\ saver = <<>>
    /\ store_call = NoStoreCall

\* UserStateStore.replace_all(payload): on an sqlite3 error the transaction
\* is rolled back and the error is raised
ReplaceAll(payload, fails) ==
    /\ user_state' = IF fails THEN user_state
                     ELSE replace_all(user_state, payload)
    /\ store_call' = [op |-> "replace_all", payload |-> payload,
                      raised |-> fails, result |-> <<>>]
    /\ UNCHANGED <<_users_payload, _users_payload_lock, users_json,
                   users_json_bak, users_json_tmp, saver>>

\* UserStateStore.load_all()
LoadAll(fails) ==
    /\ store_call' = [op |-> "load_all", payload |-> <<>>, raised |-> fails,
                      result |-> IF fails THEN <<>> ELSE load_all(user_state)]
    /\ UNCHANGED <<_users_payload, _users_payload_lock, users_json,
                   users_json_bak, users_json_tmp, user_state, saver>>

\* UserStateStore.upsert_chat(chat_id, user_payload)
UpsertChat(chat_key, user_payload, fails) ==
    /\ user_state' = IF fails THEN user_state
                     ELSE upsert_chat(user_state, chat_key, user_payload)
    /\ store_call' = [op |-> "upsert_chat", payload |-> (chat_key :> user_payload),
                      raised |-> fails, result |-> <<>>]
    /\ UNCHANGED <<_users_payload, _users_payload_lock, users_json,
                   users_json_bak, users_json_tmp, saver>>

\* the wizard before any schedule request
NoSendCall == [called |-> FALSE, chat |-> 0,
               entry |-> [cache_key |-> "", gpv |-> ""], render |-> "",
               telegram |-> "", raised |-> FALSE]
SendParked ==
    /\ metrics = [schedule_requests |-> 0, schedule_success |-> 0,
                  schedule_failures |-> 0, text_fallbacks |-> 0]
    /\ bot = <<>>
    /\ send_call = NoSendCall

(***************************************************************************)
(* wizard.py: users.json, users.json.bak and the payload in memory         *)
(***************************************************************************)
\* a document: missing, not JSON, JSON that is not an object, or a map
Document(kind, map) == [kind |-> kind, map |-> map]
Missing == Document("missing", <<>>)
Documents ==
    {Missing, Document("garbage", <<>>), Document("list", <<>>)}
    \cup {Document("dict", map) : map \in MapsOver({EmptyRecord})}

\* _load_users_payload, lines 156-182, for an empty or non-empty payload in
\* memory, the two documents, the table, and a database whose statements
\* fail or not: the payload and the table afterwards, and whether the call
\* raised
LoadedFrom(payload, primary, backup, table, db_down) ==
    LET done(p, t, raised) == [payload |-> p, table |-> t, raised |-> raised]
        \* line 182, outside every try
        from_mirror(p) == IF db_down THEN done(p, table, TRUE)
                          ELSE done(load_all(table), table, FALSE)
        \* `payload if isinstance(payload, dict) else {}`
        map_of(doc) == IF doc.kind = "dict" THEN doc.map ELSE <<>>
        from_backup(p) ==
            IF backup.kind = "missing" THEN from_mirror(p)
            ELSE IF backup.kind = "garbage" THEN from_mirror(p)
            ELSE IF map_of(backup) = <<>> THEN done(<<>>, table, FALSE)
            ELSE IF db_down THEN from_mirror(map_of(backup))
            ELSE done(map_of(backup), replace_all(table, map_of(backup)), FALSE)
    IN IF payload # <<>> THEN done(payload, table, FALSE)
       ELSE IF primary.kind = "missing" THEN done(<<>>, table, FALSE)
       ELSE IF primary.kind = "garbage" THEN from_backup(payload)
       ELSE IF map_of(primary) = <<>> THEN done(<<>>, table, FALSE)
       ELSE IF db_down THEN from_backup(map_of(primary))
       ELSE done(map_of(primary), replace_all(table, map_of(primary)), FALSE)

\* a call of _load_users_payload by a thread that finds the lock free
LoadUsersPayload(db_down) ==
    /\ _users_payload_lock = "free"
    /\ LET loaded == LoadedFrom(_users_payload, users_json, users_json_bak,
                                user_state, db_down)
       IN /\ _users_payload' = loaded.payload
          /\ user_state' = loaded.table
          /\ store_call' = [op |-> "_load_users_payload",
                            payload |-> _users_payload,
                            raised |-> loaded.raised,
                            result |-> loaded.payload]
    /\ UNCHANGED <<_users_payload_lock, users_json, users_json_bak,
                   users_json_tmp, saver>>

\* the threads that save: the auto-update worker at the end of a round, and
\* a thread of the bot that handles an auto_on callback
Threads == {"worker", "handler"}
\* the integer fields of _default_auto_update_settings these documents follow
StoreSettings == [interval |-> 60, next_run_ts |-> 0, failures |-> 0]

\* every record of the payload was put there at line 208, and its
\* "auto_update" is the dict of PowerOnWizard.auto_update itself, not a copy:
\* the payload after that dict has changed
Aliased(payload, c, settings) ==
    IF ToString(c) \in DOMAIN payload
    THEN [payload EXCEPT ![ToString(c)].auto_update = settings]
    ELSE payload

\* the frame of thread t at position pc of _save_user_data(c)
At(t, pc, c) == [saver EXCEPT ![t] = [pc |-> pc, chat |-> c]]
\* the result of one step of the persistence layer
Stepped(op, raised) ==
    store_call' = [op |-> op, payload |-> <<>>, raised |-> raised,
                   result |-> <<>>]

\* a round of the worker whose render fails (lines 974-975), up to the call
\* of _save_user_data at line 997
WorkerRound(c) ==
    /\ saver["worker"].pc = "idle"
    /\ auto_update[c].failures < MaxRounds
    /\ LET settings == [auto_update[c] EXCEPT !.failures = @ + 1] IN
       /\ auto_update' = [auto_update EXCEPT ![c] = settings]
       /\ _users_payload' = Aliased(_users_payload, c, settings)
    /\ saver' = At("worker", "load", c)
    /\ UNCHANGED <<_users_payload_lock, users_json, users_json_bak,
                   users_json_tmp, user_state, store_call>>

\* the handler of auto_on at line 786: `settings["interval"] = interval`
HandlerInterval(c, seconds) ==
    /\ saver["handler"].pc = "idle"
    /\ LET settings == [auto_update[c] EXCEPT !.interval = seconds] IN
       /\ auto_update' = [auto_update EXCEPT ![c] = settings]
       /\ _users_payload' = Aliased(_users_payload, c, settings)
    /\ saver' = At("handler", "line 787", c)
    /\ UNCHANGED <<_users_payload_lock, users_json, users_json_bak,
                   users_json_tmp, user_state, store_call>>

\* the handler at line 787: `settings["next_run_ts"] = time.time() + interval`,
\* up to the call of _save_user_data at line 789
HandlerNextRun ==
    /\ saver["handler"].pc = "line 787"
    /\ LET c == saver["handler"].chat
           settings == [auto_update[c] EXCEPT
                           !.next_run_ts = now + auto_update[c].interval]
       IN /\ auto_update' = [auto_update EXCEPT ![c] = settings]
          /\ _users_payload' = Aliased(_users_payload, c, settings)
          /\ saver' = At("handler", "load", c)
    /\ UNCHANGED <<_users_payload_lock, users_json, users_json_bak,
                   users_json_tmp, user_state, store_call>>

\* _save_user_data, lines 206-214, one statement at a time: the load under
\* the lock, the assignment of the chat's record to the payload, and
\* store.upsert_chat, whose sqlite3 error leaves _save_user_data and, in the
\* worker, _auto_update_loop
SaveUserData(t, fails) ==
    LET c == saver[t].chat
        key == ToString(c)
        record == [seen |-> FALSE,
                   history |-> Take(history[c], MAX_HISTORY_ITEMS),
                   pinned |-> <<>>,
                   auto_update |-> auto_update[c]]
    IN
    /\ saver[t].pc \in {"load", "line 208", "line 214"}
    /\ IF saver[t].pc = "load"
       THEN LET loaded == LoadedFrom(_users_payload, users_json,
                                     users_json_bak, user_state, fails)
            IN /\ _users_payload_lock = "free"
               /\ _users_payload' = loaded.payload
               /\ user_state' = loaded.table
               /\ Stepped("_load_users_payload", loaded.raised)
               /\ saver' = At(t, IF ~loaded.raised THEN "line 208"
                                 ELSE IF t = "worker" THEN "dead" ELSE "idle", c)
       ELSE IF saver[t].pc = "line 208"
       THEN /\ ~fails
            /\ _users_payload' =
                  [k \in DOMAIN _users_payload \cup {key} |->
                      IF k = key THEN record ELSE _users_payload[k]]
            /\ saver' = At(t, "line 214", c)
            /\ UNCHANGED <<user_state, store_call>>
       ELSE /\ user_state' = IF fails THEN user_state
                             ELSE upsert_chat(user_state, key, _users_payload[key])
            /\ Stepped("upsert_chat", fails)
            /\ saver' = At(t, IF ~fails THEN "line 186"
                              ELSE IF t = "worker" THEN "dead" ELSE "idle", c)
            /\ UNCHANGED _users_payload
    /\ UNCHANGED <<auto_update, _users_payload_lock, users_json,
                   users_json_bak, users_json_tmp>>

\* lines 191-193: the primary document, when there is one, is copied to the
\* backup path
BackupSkipped(primary, backup) == backup
BackupCopy(primary, backup) == IF primary = Missing THEN backup ELSE primary

\* _save_users_payload, lines 186-203, one statement at a time: the lock,
\* json.dump to users.json.tmp, the copy of users.json to users.json.bak,
\* os.replace, store.replace_all; an exception of any of the four is logged,
\* users.json.tmp is removed and the lock released
SaveUsersPayload(t, fails) ==
    LET c == saver[t].chat
        pc == saver[t].pc
        caught == /\ _users_payload_lock' = "free"
                  /\ users_json_tmp' = Missing
                  /\ saver' = At(t, "idle", c)
    IN
    /\ pc \in {"line 186", "line 188", "line 191", "line 195", "line 196"}
    /\ pc = "line 186" => ~fails /\ _users_payload_lock = "free"
    /\ IF pc = "line 186"
       THEN /\ _users_payload_lock' = t
            /\ saver' = At(t, "line 188", c)
            /\ UNCHANGED <<users_json, users_json_bak, users_json_tmp,
                           user_state, store_call>>
       ELSE IF fails
       THEN /\ caught
            /\ Stepped(pc, TRUE)
            /\ UNCHANGED <<users_json, users_json_bak, user_state>>
       ELSE IF pc = "line 188"
       THEN /\ users_json_tmp' = Document("dict", _users_payload)
            /\ saver' = At(t, "line 191", c)
            /\ Stepped(pc, FALSE)
            /\ UNCHANGED <<_users_payload_lock, users_json, users_json_bak,
                           user_state>>
       ELSE IF pc = "line 191"
       THEN /\ users_json_bak' = BackupCopy(users_json, users_json_bak)
            /\ saver' = At(t, "line 195", c)
            /\ Stepped(pc, FALSE)
            /\ UNCHANGED <<_users_payload_lock, users_json, users_json_tmp,
                           user_state>>
       ELSE IF pc = "line 195"
       THEN /\ users_json' = users_json_tmp
            /\ users_json_tmp' = Missing
            /\ saver' = At(t, "line 196", c)
            /\ Stepped(pc, FALSE)
            /\ UNCHANGED <<_users_payload_lock, users_json_bak, user_state>>
       ELSE /\ user_state' = replace_all(user_state, _users_payload)
            /\ _users_payload_lock' = "free"
            /\ saver' = At(t, "idle", c)
            /\ Stepped("saved", FALSE)
            /\ UNCHANGED <<users_json, users_json_bak, users_json_tmp>>
    /\ UNCHANGED <<auto_update, _users_payload>>
(***************************************************************************)
(* The specifications                                                      *)
(***************************************************************************)
\* the worker and its data before any subscriber is loaded
LoopParked ==
    /\ auto_update = [c \in Chats |-> DefaultSettings]
    /\ history = [c \in Chats |-> <<>>]
    /\ _auto_update_heap = <<>>
    /\ feature_flags = [text_mode_cooldown |-> TRUE, multi_address_auto |-> TRUE]
    /\ worker = IdleWorker
    /\ store = [c \in Chats |-> Saved(<<>>, DefaultSettings)]
    /\ hour0 = 0
    /\ event = NoEvent
    /\ deliveries = [c \in Chats |-> <<>>]
    /\ streak = [c \in Chats |-> 0]
    /\ rendered = [c \in Chats |-> [k \in WatchedKeys |-> NoRender]]

NoQuietCall == [quiet |-> DefaultSettings.quiet_hours, hour |-> 0,
                called |-> FALSE, result |-> FALSE]

InitCache ==
    /\ now = 0
    /\ CacheStart
    /\ LoopParked
    /\ quiet_call = NoQuietCall
    /\ StoreParked
    /\ SendParked

\* the steps of the client, limited to n calls
NextCalls(n) ==
    \/ \E c \in Coros, k \in Keys, kwargs \in {{}, {"force_refresh"}},
          over \in SUBSET Paths :
          /\ ncalls < n
          /\ Call(c, k, kwargs, over)
          /\ UNCHANGED notCache
    \/ \E c \in Coros : Wake(c) /\ UNCHANGED notCache
    \/ \E c \in Coros : WriteBegin(c) /\ UNCHANGED notCache
    \/ \E c \in Coros : WriteEnd(c) /\ UNCHANGED notCache
    \/ \E c \in Coros : Publish(c) /\ UNCHANGED notCache
    \/ \E c \in Coros, e \in CaughtErrors :
          CaptureFail(c, e) /\ UNCHANGED notCache
    \/ \E c \in Coros, e \in UncaughtErrors :
          CaptureRaise(c, e) /\ UNCHANGED notCache
    \/ \E c \in Coros : Retry(c) /\ UNCHANGED notCache
    \/ Advance /\ UNCHANGED notCache

NextCache == NextCalls(MaxCalls)
SpecCache == InitCache /\ [][NextCache]_vars

\* the same client, with one call more: three callers of one key
NextCache3 == NextCalls(MaxCalls + 1)
SpecCache3 == InitCache /\ [][NextCache3]_vars

\* _is_quiet_hours applied to every quiet_hours setting and hour of the day
InitQuiet ==
    /\ now = 0
    /\ CacheStart
    /\ LoopParked
    /\ StoreParked
    /\ SendParked
    /\ \E enabled \in BOOLEAN, start \in 0..23, end \in 0..23, hour \in 0..23 :
          quiet_call = [quiet |-> [enabled |-> enabled, start |-> start,
                                   end |-> end],
                        hour |-> hour, called |-> FALSE, result |-> FALSE]

QuietCall ==
    /\ ~quiet_call.called
    /\ quiet_call' = [quiet_call EXCEPT
                         !.called = TRUE,
                         !.result = _is_quiet_hours(quiet_call.quiet, quiet_call.hour)]
    /\ UNCHANGED <<now, cacheVars, loopVars, storeVars, sendVars>>

NextQuiet == QuietCall
SpecQuiet == InitQuiet /\ [][NextQuiet]_vars

\* the settings users.json can hold for a subscriber with auto-update on:
\* next_run_ts 0 makes _schedule_auto_update queue the chat at now + interval
LoadedSettings ==
    {[DefaultSettings EXCEPT !.enabled = TRUE, !.interval = LoopStep,
                             !.silent = silent, !.selected_keys = selected,
                             !.max_per_hour = max_per_hour,
                             !.notify_timestamps = stamps,
                             !.last_signature = last_signature] :
        silent \in BOOLEAN,
        selected \in {<<>>, <<"1:2:3", "1:2:4">>, <<"1:2:4", "1:2:3">>},
        last_signature \in {"", "s1"},
        max_per_hour \in {1, 2}, stamps \in {<<>>, <<0>>}}

\* the wizard after __init__, at StartTime: users.json hydrated, the enabled
\* chats queued; the photos sent before are those notify_timestamps records
InitLoop ==
    /\ now = StartTime
    /\ CacheStart
    /\ quiet_call = NoQuietCall
    /\ StoreParked
    /\ SendParked
    /\ hour0 \in {10, 22}
    /\ \E loaded \in LoadedSettings, hist \in {<<>>, <<"1:2:3", "1:2:4">>} :
          LET queued == [c \in Chats |->
                            _schedule_auto_update(c, loaded, <<>>, now)]
          IN \* the addresses selected are addresses of the history
             /\ loaded.selected_keys # <<>> => hist # <<>>
             /\ auto_update = [c \in Chats |-> queued[c].settings]
             /\ _auto_update_heap = queued[1].heap
             /\ history = [c \in Chats |-> hist]
             /\ store = [c \in Chats |-> Saved(hist, loaded)]
             /\ streak = [c \in Chats |-> loaded.failures]
             /\ rendered = [c \in Chats |-> [k \in WatchedKeys |-> NoRender]]
             /\ deliveries = [c \in Chats |-> loaded.notify_timestamps]
    /\ feature_flags = [text_mode_cooldown |-> TRUE, multi_address_auto |-> TRUE]
    /\ worker = IdleWorker
    /\ event = NoEvent

\* the steps of the worker, for the outcomes _render_schedule can have
NextWorker(outcomes) ==
    \/ Tick /\ UNCHANGED notLoop
    \/ \E outcome \in outcomes, sent \in DeliverOutcomes :
          Item(outcome, sent) /\ UNCHANGED notLoop
    \/ Save /\ UNCHANGED notLoop
    \/ \E name \in {"text_mode_cooldown"} :
          ToggleFlag(name) /\ UNCHANGED notLoop
    \/ AdvanceLoop /\ UNCHANGED notLoop

\* _auto_update_loop against every outcome of _render_schedule
NextLoop == NextWorker(RenderOutcomes)
SpecLoop == InitLoop /\ [][NextLoop]_vars

\* _auto_update_loop with client.py as it is
NextSched == NextWorker(ShippedOutcomes)
SpecSched == InitLoop /\ [][NextSched]_vars


\* the intervals of the auto_on buttons taken here: one and two steps of the clock
AutoOnSeconds == {LoopStep, 2 * LoopStep}

\* the wizard after __init__ with one subscriber who has not enabled
\* auto-update, outside the quiet hours
InitSettings ==
    /\ now = StartTime
    /\ CacheStart
    /\ quiet_call = NoQuietCall
    /\ StoreParked
    /\ SendParked
    /\ hour0 = 10
    /\ \E hist \in {<<>>, <<"1:2:3">>}, silent \in BOOLEAN :
          LET loaded == [DefaultSettings EXCEPT !.silent = silent] IN
          /\ auto_update = [c \in Chats |-> loaded]
          /\ history = [c \in Chats |-> hist]
          /\ store = [c \in Chats |-> Saved(hist, loaded)]
    /\ _auto_update_heap = <<>>
    /\ streak = [c \in Chats |-> 0]
    /\ deliveries = [c \in Chats |-> <<>>]
    /\ rendered = [c \in Chats |-> [k \in WatchedKeys |-> NoRender]]
    /\ feature_flags = [text_mode_cooldown |-> TRUE, multi_address_auto |-> TRUE]
    /\ worker = IdleWorker
    /\ event = NoEvent

\* the worker and the handlers that switch auto-update on and off
NextSettings ==
    \/ NextWorker({"s1"})
    \/ \E c \in Chats, seconds \in AutoOnSeconds :
          AutoOn(c, seconds) /\ UNCHANGED notLoop
    \/ \E c \in Chats : AutoOff(c) /\ UNCHANGED notLoop
SpecSettings == InitSettings /\ [][NextSettings]_vars

\* a subscriber with no history looks up addresses
InitHistory ==
    /\ now = StartTime
    /\ CacheStart
    /\ quiet_call = NoQuietCall
    /\ StoreParked
    /\ SendParked
    /\ LoopParked
NextHistory ==
    \E c \in Chats, k \in HistoryKeys : UpsertHistory(c, k) /\ UNCHANGED notLoop
SpecHistory == InitHistory /\ [][NextHistory]_vars

\* a subscriber, with or without a history, asks for schedules
InitSend ==
    /\ now = StartTime
    /\ CacheStart
    /\ quiet_call = NoQuietCall
    /\ StoreParked
    /\ SendParked
    /\ auto_update \in [Chats -> {[DefaultSettings EXCEPT !.last_signature = s] :
                                     s \in {"", "s1"}}]
    /\ history \in [Chats -> {<<>>, <<"1:2:3">>}]
    /\ _auto_update_heap = <<>>
    /\ feature_flags = [text_mode_cooldown |-> TRUE, multi_address_auto |-> TRUE]
    /\ worker = IdleWorker
    /\ store = [c \in Chats |-> Saved(history[c], auto_update[c])]
    /\ hour0 = 0
    /\ event = NoEvent
    /\ deliveries = [c \in Chats |-> <<>>]
    /\ streak = [c \in Chats |-> 0]
    /\ rendered = [c \in Chats |-> [k \in WatchedKeys |-> NoRender]]
NextSend ==
    \E c \in Chats, entry \in Entries, show_wait \in BOOLEAN,
       render \in SendRenders, deliver \in DeliverOutcomes,
       telegram \in {"up", "down"} :
          /\ SendSchedule(c, entry, show_wait, render, deliver, telegram)
          /\ UNCHANGED <<now, cacheVars, quiet_call, storeVars>>
SpecSend == InitSend /\ [][NextSend]_vars

\* UserStateStore on a table with earlier content, every method called with
\* every map of the model
InitMirror ==
    /\ now = 0
    /\ CacheStart
    /\ LoopParked
    /\ quiet_call = NoQuietCall
    /\ SendParked
    /\ _users_payload = <<>>
    /\ _users_payload_lock = "free"
    /\ users_json = [kind |-> "missing", map |-> <<>>]
    /\ users_json_bak = [kind |-> "missing", map |-> <<>>]
    /\ users_json_tmp = [kind |-> "missing", map |-> <<>>]
    /\ user_state \in Tables
    /\ saver = <<>>
    /\ store_call = NoStoreCall

notStore == <<now, cacheVars, loopVars, quiet_call, sendVars>>

NextMirror ==
    \/ \E payload \in Payloads, fails \in BOOLEAN :
          ReplaceAll(payload, fails) /\ UNCHANGED notStore
    \/ \E fails \in BOOLEAN : LoadAll(fails) /\ UNCHANGED notStore
    \/ \E chat_key \in ChatKeys, user_payload \in Records, fails \in BOOLEAN :
          UpsertChat(chat_key, user_payload, fails) /\ UNCHANGED notStore
SpecMirror == InitMirror /\ [][NextMirror]_vars

\* _load_users_payload on every state of the two documents and the table,
\* before anything is in memory
InitLoad ==
    /\ now = 0
    /\ CacheStart
    /\ LoopParked
    /\ quiet_call = NoQuietCall
    /\ SendParked
    /\ _users_payload = <<>>
    /\ _users_payload_lock = "free"
    /\ users_json \in Documents
    /\ users_json_bak \in Documents
    /\ users_json_tmp = Missing
    /\ user_state \in Tables
    /\ saver = <<>>
    /\ store_call = NoStoreCall

NextLoad ==
    \E db_down \in BOOLEAN : LoadUsersPayload(db_down) /\ UNCHANGED notStore
SpecLoad == InitLoad /\ [][NextLoad]_vars

\* a fresh installation: no document, an empty table, one subscriber in
\* memory; the worker and a handler save the subscriber's record
InitStore ==
    /\ now = 0
    /\ CacheStart
    /\ quiet_call = NoQuietCall
    /\ SendParked
    /\ auto_update = [c \in Chats |-> StoreSettings]
    /\ history \in {[c \in Chats |-> <<>>], [c \in Chats |-> <<"1:2:3">>]}
    /\ _auto_update_heap = <<>>
    /\ feature_flags = [text_mode_cooldown |-> TRUE, multi_address_auto |-> TRUE]
    /\ worker = IdleWorker
    /\ store = [c \in Chats |-> Saved(<<>>, DefaultSettings)]
    /\ hour0 = 0
    /\ event = NoEvent
    /\ deliveries = [c \in Chats |-> <<>>]
    /\ streak = [c \in Chats |-> 0]
    /\ rendered = [c \in Chats |-> [k \in WatchedKeys |-> NoRender]]
    /\ _users_payload = <<>>
    /\ _users_payload_lock = "free"
    /\ users_json = Missing
    /\ users_json_bak = Missing
    /\ users_json_tmp = Missing
    /\ user_state = <<>>
    /\ saver = [t \in Threads |-> [pc |-> "idle", chat |-> 0]]
    /\ store_call = NoStoreCall

\* what the steps of the two threads leave alone
notSaved == <<now, cacheVars, quiet_call, sendVars, history, _auto_update_heap,
              feature_flags, worker, store, hour0, event, deliveries, streak,
              rendered>>

NextStore ==
    \/ \E c \in Chats : WorkerRound(c) /\ UNCHANGED notSaved
    \/ \E c \in Chats, seconds \in {10, 20} :
          HandlerInterval(c, seconds) /\ UNCHANGED notSaved
    \/ HandlerNextRun /\ UNCHANGED notSaved
    \/ \E t \in Threads, fails \in BOOLEAN :
          SaveUserData(t, fails) /\ UNCHANGED notSaved
    \/ \E t \in Threads, fails \in BOOLEAN :
          SaveUsersPayload(t, fails) /\ UNCHANGED notSaved
SpecStore == InitStore /\ [][NextStore]_vars

(***************************************************************************)
(* client.py: the sweep of the cache directory                             *)
(***************************************************************************)
\* _cleanup_cache_files that removes nothing beyond the cap (lines 209-218)
CleanupWithoutCap(dir, t, last, stuck) ==
    IF t - last < CACHE_CLEANUP_INTERVAL_SECONDS
    THEN [files |-> dir, last |-> last]
    ELSE [files |-> [m \in DOMAIN dir |->
                        IF t - m > CACHE_MAX_FILE_AGE_SECONDS /\ m \notin stuck
                        THEN 0 ELSE dir[m]],
          last |-> t]

\* _cleanup_cache_files, lines 190-223, at time t with _last_cache_cleanup_ts
\* = last.  dir[m] is the number of .png files of the directory with
\* st_mtime = m; os.remove raises OSError for the files whose mtime is in
\* stuck, which `except OSError: pass` swallows.  The result: the directory
\* and _last_cache_cleanup_ts afterwards
_cleanup_cache_files(dir, t, last, stuck) ==
    IF t - last < CACHE_CLEANUP_INTERVAL_SECONDS
    THEN [files |-> dir, last |-> last]
    ELSE LET RECURSIVE Count(_, _)
             Count(d, S) == IF S = {} THEN 0
                            ELSE LET m == CHOOSE x \in S : TRUE
                                 IN d[m] + Count(d, S \ {m})
             \* lines 203-208: the files older than the max age
             aged == [m \in DOMAIN dir |->
                         IF t - m > CACHE_MAX_FILE_AGE_SECONDS /\ m \notin stuck
                         THEN 0 ELSE dir[m]]
             \* lines 210-214: the files that exist, newest first; the files
             \* of mtime m that stand beyond the first CACHE_MAX_FILES
             beyond(m) ==
                 LET newer == Count(aged, {x \in DOMAIN dir : x > m})
                     over == newer + aged[m] - CACHE_MAX_FILES
                 IN IF over <= 0 THEN 0
                    ELSE IF over > aged[m] THEN aged[m] ELSE over
         IN [files |-> [m \in DOMAIN dir |->
                           IF m \in stuck THEN aged[m] ELSE aged[m] - beyond(m)],
             last |-> t]

\* a call of _cleanup_cache_files, as render_schedule_screenshot makes it
CleanupCacheFiles(stuck) ==
    LET done == _cleanup_cache_files(files, now, _last_cache_cleanup_ts, stuck)
    IN /\ files' = done.files
       /\ _last_cache_cleanup_ts' = done.last
       /\ ret' = [kind |-> "swept", stuck |-> stuck, before |-> files]
       /\ UNCHANGED <<now, _cache, _locks, locked, task, ncalls,
                      render_attempts>>

\* the directory two clock steps after the oldest file passed the max age:
\* files of four ages, one of them exactly CACHE_MAX_FILE_AGE_SECONDS old,
\* none, one, or about CACHE_MAX_FILES of each
InitSweep ==
    /\ now = CACHE_MAX_FILE_AGE_SECONDS + 2 * TimeStep
    /\ _cache = <<>>
    /\ _locks = <<>>
    /\ _last_cache_cleanup_ts = 0
    /\ locked = [l \in LockIds |-> FALSE]
    /\ files \in [{0, 2 * TimeStep, 3 * TimeStep,
                   CACHE_MAX_FILE_AGE_SECONDS + 2 * TimeStep} ->
                     {0, 1, CACHE_MAX_FILES - 1, CACHE_MAX_FILES + 1}]
    /\ task = [c \in Coros |-> IdleTask]
    /\ ret = NoRet
    /\ ncalls = 0
    /\ render_attempts = 0
    /\ LoopParked
    /\ quiet_call = NoQuietCall
    /\ StoreParked
    /\ SendParked
NextSweep ==
    \/ \E stuck \in SUBSET DOMAIN files :
          CleanupCacheFiles(stuck) /\ UNCHANGED notCache
    \/ /\ now < CACHE_MAX_FILE_AGE_SECONDS + (2 + MaxTicks) * TimeStep
       /\ now' = now + TimeStep
       /\ UNCHANGED <<cacheVars, notCache>>
SpecSweep == InitSweep /\ [][NextSweep]_vars

(***************************************************************************)
(* wizard.py: the addresses chosen for auto-update                         *)
(***************************************************************************)
\* the toggle of lines 770-774 that inserts without looking for the key
InsertSelected(selected, cache_key) ==
    Take(<<cache_key>> \o selected, MAX_HISTORY_ITEMS)

\* lines 769-774: selected_keys after the callback for cache_key
ToggleSelected(selected, cache_key) ==
    IF \E i \in 1 .. Len(selected) : selected[i] = cache_key
    THEN SelectSeq(selected, LAMBDA key : key # cache_key)
    ELSE Take(<<cache_key>> \o selected, MAX_HISTORY_ITEMS)

\* handle_callback, "poweron:auto_addr:<cache_key>" (lines 766-777): the
\* key is toggled in selected_keys and the chat saved
AutoAddr(c, cache_key) ==
    LET settings == [auto_update[c] EXCEPT
                        !.selected_keys = ToggleSelected(@, cache_key)]
    IN /\ auto_update' = [auto_update EXCEPT ![c] = settings]
       /\ store' = [store EXCEPT ![c] = Saved(history[c], settings)]
       /\ Emit("auto_addr", c, cache_key)
       /\ UNCHANGED <<now, history, _auto_update_heap, feature_flags, worker,
                      hour0, deliveries, streak, rendered>>

\* a subscriber presses the address buttons of the auto-update menu
NextSelect ==
    \E c \in Chats, cache_key \in HistoryKeys :
       AutoAddr(c, cache_key) /\ UNCHANGED notLoop
SpecSelect == InitHistory /\ [][NextSelect]_vars

(***************************************************************************)
(* wizard.py: the entry built from a stored address                        *)
(***************************************************************************)
\* _entry_ids, lines 876-885: the three ids of "a:b:c", or <<>> for None
_entry_ids(cache_key) ==
    LET ids == {t \in (1 .. 4) \X (1 .. 4) \X (1 .. 4) :
                   ToString(t[1]) \o ":" \o ToString(t[2]) \o ":"
                      \o ToString(t[3]) = cache_key}
    IN IF ids = {} THEN <<>> ELSE CHOOSE t \in ids : TRUE

\* what the API holds for a house: its field codes (here the GPV code "9"),
\* nothing, or no answer at all
ApiAnswers == {"9", "", "down"}

\* `asyncio.run(self.client.fetch_house_schedule(*ids))` at line 894.
\* PowerOnClient (client.py 50-432) defines search_settlements, search_streets
\* and search_houses but no fetch_house_schedule: the attribute lookup raises
\* AttributeError whatever the API holds
fetch_house_schedule(ids, api) == "AttributeError"

\* _refresh_entry_schedule, lines 887-899: a copy of the item, with the
\* schedule the fetch returned when it returned one; `except Exception`
\* keeps the item's schedule
_refresh_entry_schedule(item, api) ==
    IF _entry_ids(item.cache_key) = <<>> THEN [entry |-> item, raised |-> FALSE]
    ELSE LET schedule == fetch_house_schedule(_entry_ids(item.cache_key), api)
         IN [entry |-> IF schedule \in {"AttributeError", "down", ""} THEN item
                       ELSE [item EXCEPT !.gpv = schedule],
             raised |-> FALSE]

\* _build_entry_from_context(chat_id, address_item), lines 1020-1054, for an
\* address of the history or the pinned list
BuildEntry(c, item, api) ==
    LET built == _refresh_entry_schedule(item, api) IN
    /\ send_call' = [called |-> TRUE, chat |-> c, entry |-> built.entry,
                     render |-> "not reached", telegram |-> "",
                     raised |-> built.raised, item |-> item, api |-> api]
    /\ Emit("entry", c, item.cache_key)
    /\ UNCHANGED <<metrics, bot, now, auto_update, history, _auto_update_heap,
                   feature_flags, worker, store, hour0, deliveries, streak,
                   rendered>>

\* entries built from stored addresses whose cache key has three ids or not
NextEntry ==
    \E c \in Chats, api \in ApiAnswers,
       item \in [cache_key : WatchedKeys \cup {"", "1:2"}, gpv : {"", "1"}] :
       /\ BuildEntry(c, item, api)
       /\ UNCHANGED <<now, cacheVars, quiet_call, storeVars>>
SpecEntry == InitSend /\ [][NextEntry]_vars

(***************************************************************************)
(* The interval of a subscriber: hydration, the auto_on button and the     *)
(* interval typed by the subscriber                                        *)
(***************************************************************************)
\* lines 227-242 (and 256-271 of _ensure_user_loaded): the settings built
\* from the auto_update dict of a stored record
HydrateAsStored(stored) == stored
_hydrate_users_cache_from_payload(stored) ==
    LET interval == OrDefault(stored.interval, 60) IN
    [stored EXCEPT !.interval = IF interval < 10 THEN 10 ELSE interval,
                   !.max_per_hour = OrDefault(stored.max_per_hour, 4)]

\* what the subscriber can type at the step auto_interval_input
IntervalTexts == {"abc", "5", "9", "10", "45"}

\* handle_message at the step auto_interval_input (lines 628-646): a text
\* that is no number, or a number below 10, is answered and nothing else
\* happens; otherwise the chat is enabled with the interval typed, queued
\* and saved
AutoIntervalInput(c, text) ==
    /\ Len(_auto_update_heap) < MaxHeap
    /\ Emit("auto_interval_input", c, text)
    /\ IF text \notin DOMAIN IntOf
       THEN UNCHANGED <<auto_update, _auto_update_heap, store>>
       ELSE LET interval == IntOf[text] IN
            IF interval < 10
            THEN UNCHANGED <<auto_update, _auto_update_heap, store>>
            ELSE LET settings == [auto_update[c] EXCEPT
                                     !.enabled = TRUE,
                                     !.interval = interval,
                                     !.next_run_ts = now + interval]
                     queued == _schedule_auto_update(c, settings,
                                                     _auto_update_heap, now)
                 IN /\ auto_update' = [auto_update EXCEPT ![c] = queued.settings]
                    /\ _auto_update_heap' = queued.heap
                    /\ store' = [store EXCEPT
                                    ![c] = Saved(history[c], queued.settings)]
    /\ UNCHANGED <<now, history, feature_flags, worker, hour0, deliveries,
                   streak, rendered>>

\* the auto_update dicts users.json can hold: written by this program, or
\* by hand with a short or a missing interval
StoredSettings ==
    {[DefaultSettings EXCEPT !.enabled = enabled, !.interval = interval] :
        enabled \in BOOLEAN, interval \in {0, 5, LoopStep}}

\* the wizard after _start_auto_update_worker (lines 918-926): users.json
\* hydrated, the enabled chats queued
InitInterval ==
    /\ now = StartTime
    /\ CacheStart
    /\ quiet_call = NoQuietCall
    /\ StoreParked
    /\ SendParked
    /\ hour0 = 10
    /\ \E stored \in StoredSettings :
          LET queued == [c \in Chats |->
                 _schedule_auto_update(
                     c, _hydrate_users_cache_from_payload(stored), <<>>, now)]
          IN /\ auto_update = [c \in Chats |-> queued[c].settings]
             /\ _auto_update_heap = queued[1].heap
             /\ store = [c \in Chats |-> Saved(<<"1:2:3">>, stored)]
    /\ history = [c \in Chats |-> <<"1:2:3">>]
    /\ streak = [c \in Chats |-> 0]
    /\ deliveries = [c \in Chats |-> <<>>]
    /\ rendered = [c \in Chats |-> [k \in WatchedKeys |-> NoRender]]
    /\ feature_flags = [text_mode_cooldown |-> TRUE, multi_address_auto |-> TRUE]
    /\ worker = IdleWorker
    /\ event = NoEvent

\* the worker and the handlers that set the interval
NextInterval ==
    \/ Tick /\ UNCHANGED notLoop
    \/ \E sent \in DeliverOutcomes : Item("s1", sent) /\ UNCHANGED notLoop
    \/ Save /\ UNCHANGED notLoop
    \/ AdvanceLoop /\ UNCHANGED notLoop
    \/ \E c \in Chats, seconds \in {5, LoopStep} :
          AutoOn(c, seconds) /\ UNCHANGED notLoop
    \/ \E c \in Chats : AutoOff(c) /\ UNCHANGED notLoop
    \/ \E c \in Chats, text \in IntervalTexts :
          AutoIntervalInput(c, text) /\ UNCHANGED notLoop
SpecInterval == InitInterval /\ [][NextInterval]_vars

(***************************************************************************)
(* The process ends inside a save and starts again                         *)
(***************************************************************************)
\* the map a document holds, {} when it holds none
MapOf(doc) == IF doc.kind = "dict" THEN doc.map ELSE <<>>

\* the process ends while thread t is inside _save_users_payload, at its
\* statement pc; under_way tells that the statement had begun: a file being
\* written (lines 188-189, 192-193) is left partly written, while os.replace
\* and the transaction of store.replace_all happen wholly or not at all.
\* Memory is lost; store_call keeps, for the observer, the payload of the
\* primary before this save and the payload this save writes.
Crash(t, under_way) ==
    LET pc == saver[t].pc
        renamed == pc = "line 196"
        previous == IF renamed THEN MapOf(users_json_bak) ELSE MapOf(users_json)
        new == IF renamed THEN MapOf(users_json)
               ELSE IF users_json_tmp.kind = "dict" THEN users_json_tmp.map
               ELSE _users_payload
    IN /\ pc \in {"line 188", "line 191", "line 195", "line 196"}
       /\ under_way => pc \in {"line 188", "line 191"}
       /\ users_json_tmp' = IF pc = "line 188" /\ under_way
                            THEN Document("garbage", <<>>)
                            ELSE users_json_tmp
       /\ users_json_bak' = IF pc = "line 191" /\ under_way /\ users_json # Missing
                            THEN Document("garbage", <<>>)
                            ELSE users_json_bak
       /\ _users_payload' = <<>>
       /\ _users_payload_lock' = "free"
       /\ saver' = [u \in Threads |-> [pc |-> "down", chat |-> 0]]
       /\ store_call' = [op |-> "crash", payload |-> previous, result |-> new,
                         raised |-> FALSE]
       /\ UNCHANGED <<auto_update, users_json, user_state>>

\* the next start of the process: _load_users_payload with nothing in memory
\* (line 218, from _start_auto_update_worker)
StartupLoad(db_down) ==
    /\ \A t \in Threads : saver[t].pc = "down"
    /\ LET loaded == LoadedFrom(<<>>, users_json, users_json_bak, user_state,
                                db_down)
       IN /\ _users_payload' = loaded.payload
          /\ user_state' = loaded.table
          /\ store_call' = [store_call EXCEPT !.op = "startup",
                                              !.raised = loaded.raised]
    /\ saver' = [t \in Threads |-> [pc |-> "started", chat |-> 0]]
    /\ UNCHANGED <<auto_update, _users_payload_lock, users_json,
                   users_json_bak, users_json_tmp>>

\* two threads save, the process ends inside a save and starts again
NextCrash ==
    \/ NextStore
    \/ \E t \in Threads, under_way \in BOOLEAN :
          Crash(t, under_way) /\ UNCHANGED notSaved
    \/ \E db_down \in BOOLEAN : StartupLoad(db_down) /\ UNCHANGED notSaved
SpecCrash == InitStore /\ [][NextCrash]_vars
(***************************************************************************)
(* Claims about the render cache (SpecCache, SpecCache3)                   *)
(***************************************************************************)
\* the render section: lines 241-258, inside `async with lock`
RenderSection == {"capturing", "writing", "written", "backoff"}

\* C1: for every key K, once a call has installed a CacheRecord with path P,
\* a call for K made before the record's expires_at, with the file present
\* and without force_refresh, returns P at once: it makes no renderer call,
\* starts no attempt and leaves metrics["render_attempts"] as it was.
C1_HitWithinTtl ==
    [][\A k \in Keys :
          (/\ ncalls' = ncalls + 1
           /\ ret'.kind # "TypeError"
           /\ k \in DOMAIN _cache
           /\ _cache[k].expires_at > now
           /\ files'[_cache[k].path] # "absent")
          => /\ ret'.kind = "path"
             /\ ret'.hit
             /\ ret'.key = k
             /\ ret'.path = _cache[k].path
             /\ ret'.renders = 0
             /\ render_attempts' = render_attempts
             /\ task' = task
             /\ _cache' = _cache]_vars

\* a call made after time has passed was answered from the cache
C1_Witness ==
    /\ ret.kind = "path"
    /\ ret.hit
    /\ ret.renders = 0
    /\ ret.file = "complete"
    /\ now = TimeStep
    /\ ret.key \in DOMAIN _cache
    /\ _cache[ret.key].expires_at = CACHE_TTL_SECONDS

\* C2 as stated: in every reachable state, for each key and each event loop,
\* at most one coroutine of that loop is inside the render section for that
\* key, whatever calls of other loops rebind the key's lock.
C2_OneRenderPerLoop ==
    \A k \in Keys, loop \in Loops :
        Cardinality({c \in Coros : /\ LoopOf(c) = loop
                                   /\ task[c].pc \in RenderSection
                                   /\ task[c].cache_key = k}) <= 1

\* C3 as stated: no caller is handed a path whose file is still being
\* written, and the renderer never writes to the path of a published
\* CacheRecord.
C3_NoPartialArtifact ==
    /\ ret.kind = "path" => ret.file # "partial"
    /\ \A c \in Coros, k \in DOMAIN _cache :
          task[c].pc = "writing" => PathOf(task[c].cache_key) # _cache[k].path

\* the two calls made so far are one of loop A and one of loop B, made at the
\* same time for the same key, and neither has returned: the key was uncached
\* at both
C4_PairInFlight ==
    /\ ncalls = 2
    /\ task["a1"].pc # "idle"
    /\ task["b1"].pc # "idle"
    /\ task["a1"].cache_key = task["b1"].cache_key
    /\ task["a1"].now = task["b1"].now
    /\ now = task["a1"].now

\* C4 as stated: when callers of two loops call for the same uncached key at
\* the same time, the renderer is invoked at least once and at most twice in
\* total, and every path returned points to a complete artifact.
C4_TwoLoopsTwoRenders ==
    [][C4_PairInFlight =>
          /\ render_attempts' >= 1
          /\ render_attempts' <= 2
          /\ (ret' # ret /\ ret'.kind = "path") => ret'.file = "complete"]_vars

\* C5 as stated: a call with force_refresh=True for a key whose record is
\* unexpired and whose file exists invokes the renderer exactly once and
\* returns the path of an existing file.
C5_ForceRefreshRenders ==
    (ret.forced /\ ret.live) =>
        /\ ret.kind = "path"
        /\ ret.renders = 1
        /\ ret.file # "absent"

\* C6: a call that misses makes at most CAPTURE_RETRIES (2) renderer calls;
\* a CacheRecord is installed only by the return of a successful attempt, with
\* expires_at = now + 600; when the last attempt fails with a renderer error
\* the call raises PowerOnRenderError whose cause is the error of that last
\* attempt, and _cache is left unchanged.
C6_RetryAndFail ==
    /\ [](/\ \A c \in Coros : task[c].attempt <= CAPTURE_RETRIES
          /\ ret.renders <= CAPTURE_RETRIES)
    /\ [][/\ _cache' # _cache =>
              \E c \in Coros :
                  /\ task[c].pc = "written"
                  /\ task'[c].pc = "idle"
                  /\ ret'.kind = "path"
                  /\ ~ret'.hit
                  /\ ret'.renders = task[c].attempt
                  /\ ret'.path = PathOf(task[c].cache_key)
                  /\ _cache' = [k \in DOMAIN _cache \cup {task[c].cache_key} |->
                                  IF k = task[c].cache_key
                                  THEN [path |-> ret'.path,
                                        expires_at |-> now + 600]
                                  ELSE _cache[k]]
          /\ \A c \in Coros :
                (/\ task[c].pc \in {"capturing", "writing"}
                 /\ task'[c].pc = "idle"
                 /\ ret'.kind \notin UncaughtErrors)
                => /\ task[c].attempt = CAPTURE_RETRIES
                   /\ ret'.kind = "PowerOnRenderError"
                   /\ ret'.cause = ret'.error
                   /\ ret'.cause \in CaughtErrors
                   /\ _cache' = _cache]_vars

\* a call failed twice, with two different errors, and raised
\* PowerOnRenderError from the second
C6_Witness ==
    /\ ret.kind = "PowerOnRenderError"
    /\ ret.renders = CAPTURE_RETRIES
    /\ ret.cause = "TimeoutError"
    /\ ret.key \in DOMAIN _cache
    /\ render_attempts > CAPTURE_RETRIES

(***************************************************************************)
(* Claims about quiet hours (SpecQuiet)                                    *)
(***************************************************************************)
\* C7 as stated: for every start, end and hour in 0..23, _is_quiet_hours is
\* false when quiet hours are disabled, false when start = end,
\* start <= hour < end when start < end, and hour >= start or hour < end
\* when start > end.
C7_QuietHoursTable ==
    quiet_call.called =>
        quiet_call.result =
            LET q == quiet_call.quiet
                hour == quiet_call.hour
            IN IF ~q.enabled THEN FALSE
               ELSE IF q.start = q.end THEN FALSE
               ELSE IF q.start < q.end THEN q.start <= hour /\ hour < q.end
               ELSE hour >= q.start \/ hour < q.end

(***************************************************************************)
(* Claims about the auto-update worker (SpecLoop)                          *)
(***************************************************************************)
\* the worker rendered for chat c in this step
C9_Rendered(c) ==
    /\ event' # event
    /\ event'.chat = c
    /\ event'.kind \in {"rendered", "denied", "delivered", "deliver_failed"}

\* the render of the worker for chat c failed in this step
C9_RenderFailed(c) ==
    /\ event' # event
    /\ event'.chat = c
    /\ event'.kind = "render_failed"

\* the worker asked _can_notify_now for chat c in this step
C8_Attempt(c) ==
    /\ event' # event
    /\ event'.chat = c
    /\ event'.kind \in {"denied", "delivered", "deliver_failed"}

\* the photos sent to chat c less than 3600 s before time t
C8_InWindow(c, t) ==
    Cardinality({i \in 1..Len(deliveries[c]) : t - deliveries[c][i] < 3600})

\* no 3600-second window holds more photos sent to a chat than its
\* max_per_hour
C8_Budget ==
    \A c \in Chats : \A i \in 1..Len(deliveries[c]) :
        Cardinality({j \in 1..Len(deliveries[c]) :
                        /\ deliveries[c][i] <= deliveries[c][j]
                        /\ deliveries[c][j] < deliveries[c][i] + 3600})
            <= auto_update[c].max_per_hour

\* C8, amended: the automated deliveries to a subscriber within any 3600 s
\* window never exceed max_per_hour, also when several addresses change in
\* one round; a notify attempt is denied while the window holds max_per_hour
\* timestamps, and once the oldest is 3600 s old or older an attempt is
\* allowed again unless _is_quiet_hours holds at that hour.
C8_BudgetOutsideQuietHours ==
    /\ []C8_Budget
    /\ [][\A c \in Chats : C8_Attempt(c) =>
             /\ C8_InWindow(c, now) >= auto_update[c].max_per_hour
                   => event'.kind = "denied"
             /\ (/\ C8_InWindow(c, now) < auto_update[c].max_per_hour
                 /\ ~_is_quiet_hours(auto_update[c].quiet_hours, HourAt(now)))
                   => event'.kind # "denied"]_vars

\* C8 as stated: the same, with the attempt allowed again whenever the oldest
\* timestamp has left the window.
C8_BudgetAsStated ==
    /\ []C8_Budget
    /\ [][\A c \in Chats : C8_Attempt(c) =>
             /\ C8_InWindow(c, now) >= auto_update[c].max_per_hour
                   => event'.kind = "denied"
             /\ C8_InWindow(c, now) < auto_update[c].max_per_hour
                   => event'.kind # "denied"]_vars

\* an attempt was denied outside quiet hours, two photos having been sent
\* within the hour to a chat whose max_per_hour is 2
C8_Witness ==
    \E c \in Chats :
        /\ event.kind = "denied"
        /\ event.chat = c
        /\ auto_update[c].max_per_hour = 2
        /\ Len(deliveries[c]) = 2
        /\ C8_InWindow(c, now) = 2
        /\ ~_is_quiet_hours(auto_update[c].quiet_hours, HourAt(now))

C10_CooldownSkips ==
    /\ [](\A c \in Chats :
            (auto_update[c].enabled /\ auto_update[c].text_mode_until > now)
            => \E i \in 1..Len(_auto_update_heap) :
                  /\ _auto_update_heap[i] = <<auto_update[c].next_run_ts, c>>
                  /\ _auto_update_heap[i][1] <= now + auto_update[c].interval)
    /\ [][\A c \in Chats :
             /\ auto_update[c].text_mode_until > now =>
                   /\ ~C9_Rendered(c)
                   /\ ~C9_RenderFailed(c)
                   /\ deliveries'[c] = deliveries[c]
             /\ (/\ auto_update[c].text_mode_until <= now
                 /\ worker.pc = "item"
                 /\ worker.chat = c
                 /\ worker' # worker)
                   => C9_Rendered(c) \/ C9_RenderFailed(c)]_vars

\* a round after the one that opened the cooldown skipped an address
C10_Witness ==
    \E c \in Chats :
        /\ event.kind = "skipped"
        /\ event.chat = c
        /\ auto_update[c].text_mode_until > now
        /\ auto_update[c].text_mode_until - 900 < now


(***************************************************************************)
(* Claims about change detection and the scheduler entries (SpecLoop,      *)
(* SpecSettings)                                                           *)
(***************************************************************************)
\* the step renders an image of address k for chat c, in a round of the loop
C11_Renders(c, k) ==
    /\ event' # event
    /\ event'.chat = c
    /\ event'.key = k
    /\ event'.kind \in {"rendered", "denied", "delivered", "deliver_failed"}

\* the signature of the last [AUTO] photo of address k sent to the chat
C11_LastNotified(settings, k) ==
    IF k \in DOMAIN settings.last_signatures
    THEN settings.last_signatures[k] ELSE ""

\* C11 as stated: for a subscriber with silent = true and notifications
\* allowed, a round that renders for address A the bytes of the round before
\* finds changed = false and delivers nothing, and a round that renders bytes
\* other than those of the last photo notified for A finds changed = true and
\* calls _deliver_schedule for A, once.
C11_ChangeDetection ==
    [][\A c \in Chats, k \in WatchedKeys :
          (/\ C11_Renders(c, k)
           /\ auto_update[c].silent
           /\ _can_notify_now(auto_update[c], now).ok)
          => /\ (rendered[c][k].ok /\ rendered'[c][k].sig = rendered[c][k].sig)
                   => (event'.kind = "rendered" /\ deliveries' = deliveries)
             /\ rendered'[c][k].sig # C11_LastNotified(auto_update[c], k)
                   => /\ event'.kind \in {"delivered", "deliver_failed"}
                      /\ event'.kind = "delivered"
                            => Len(auto_update'[c].notify_timestamps)
                                 = Len(Recent(auto_update[c].notify_timestamps, now)) + 1]_vars

\* the step pops the due entry at the head of the heap: it is a round of the
\* worker that takes the entry out, to drop it or to requeue the chat
C12_PopsDue ==
    /\ worker.pc = "sleep"
    /\ _auto_update_heap # <<>>
    /\ Head(_auto_update_heap)[1] <= now
    /\ _auto_update_heap' # _auto_update_heap
    /\ Len(_auto_update_heap') <= Len(_auto_update_heap)

\* the entry is taken out and nothing else happens: no render, no
\* notification, no requeue, no change of the settings
C12_Discarded ==
    /\ _auto_update_heap' = Tail(_auto_update_heap)
    /\ worker' = worker
    /\ UNCHANGED <<auto_update, history, store, deliveries, rendered, streak>>

\* C12: a popped entry (dueAt, id) is processed only if the subscriber is
\* enabled and dueAt is the subscriber's next_run_ts; an entry popped with
\* another dueAt, earlier or later, or for a disabled subscriber, is
\* discarded without a render, a notification or a requeue, so that no
\* subscriber is processed twice at one time.
C12_StaleDiscarded ==
    [][C12_PopsDue =>
          LET dueAt == Head(_auto_update_heap)[1]
              c == Head(_auto_update_heap)[2]
          IN /\ ~(auto_update[c].enabled /\ dueAt = auto_update[c].next_run_ts)
                   => C12_Discarded
             /\ ~C12_Discarded
                   => /\ auto_update'[c].next_run_ts > now
                      /\ \A i \in 1..Len(_auto_update_heap') :
                            _auto_update_heap'[i][2] = c
                               => _auto_update_heap'[i][1] >= dueAt]_vars

\* a stale entry was dropped while the chat is enabled and queued for later
C12_Witness ==
    /\ event.kind = "dropped"
    /\ \E c \in Chats :
          /\ event.chat = c
          /\ auto_update[c].enabled
          /\ auto_update[c].next_run_ts > now
          /\ \E i \in 1..Len(_auto_update_heap) :
                _auto_update_heap[i] = <<auto_update[c].next_run_ts, c>>

\* the step enables auto-update for chat c: the handler of auto_on
C13_Enables(c) ==
    /\ event' = event
    /\ auto_update'[c] # auto_update[c]
    /\ auto_update'[c].enabled

\* the step disables auto-update for chat c: the handler of auto_off
C13_Disables(c) ==
    /\ auto_update[c].enabled
    /\ ~auto_update'[c].enabled

\* C13: enabling auto-update sets enabled = true and next_run_ts = now +
\* interval and pushes the entry (now + interval, chat); disabling sets
\* enabled = false and next_run_ts = 0 and leaves the heap as it is; an entry
\* popped while the chat is disabled is dropped without a render, a delivery
\* or a requeue.
C13_EnableDisable ==
    [][\A c \in Chats :
          /\ C13_Enables(c)
                => /\ auto_update'[c].enabled
                   /\ auto_update'[c].interval \in AutoOnSeconds
                   /\ auto_update'[c].next_run_ts = now + auto_update'[c].interval
                   /\ \E i \in 1..Len(_auto_update_heap') :
                         /\ _auto_update_heap'[i] = <<now + auto_update'[c].interval, c>>
                         /\ _auto_update_heap =
                               SubSeq(_auto_update_heap', 1, i - 1)
                               \o SubSeq(_auto_update_heap', i + 1,
                                         Len(_auto_update_heap'))
          /\ C13_Disables(c)
                => /\ auto_update'[c].next_run_ts = 0
                   /\ _auto_update_heap' = _auto_update_heap
                   /\ worker' = worker
          /\ (C12_PopsDue /\ Head(_auto_update_heap)[2] = c
                /\ ~auto_update[c].enabled)
                => C12_Discarded]_vars

\* the entry queued when the chat was enabled has been dropped after the chat
\* was disabled: the heap is empty again and nothing was rendered
C13_Witness ==
    /\ event.kind = "dropped"
    /\ \E c \in Chats :
          /\ event.chat = c
          /\ ~auto_update[c].enabled
          /\ auto_update[c].next_run_ts = 0
          /\ auto_update[c].interval \in AutoOnSeconds
          /\ rendered[c] = [k \in WatchedKeys |-> NoRender]
    /\ _auto_update_heap = <<>>

\* C14 as stated: when _deliver_schedule fails in a round of the loop, the
\* loop still records the new signature of the address in last_signatures,
\* goes on to the next address or to the save that ends the round, and stays
\* alive for later rounds.
C14_DeliveryFailureTolerated ==
    [][(event' # event /\ event'.kind = "deliver_failed")
          => LET c == event'.chat
                 k == event'.key
             IN /\ k \in DOMAIN auto_update'[c].last_signatures
                /\ auto_update'[c].last_signatures[k] = rendered'[c][k].sig
                /\ worker'.pc \in {"item", "save"}]_vars

\* the entries of a history
C19_Keys(hist) == {hist[i] : i \in 1 .. Len(hist)}

\* C19: after every call of _upsert_history the history has at most
\* MAX_HISTORY_ITEMS entries, no key twice, and the upserted key first; the
\* entries that were there keep their order, a key already present only moves
\* to the front, and a new key arriving at a full history drops its last
\* entry and nothing else.
C19_HistoryMRU ==
    [][\A c \in Chats :
          history'[c] # history[c] \/ event' # event =>
             LET old == history[c]
                 new == history'[c]
                 k == event'.key
             IN /\ Len(new) <= MAX_HISTORY_ITEMS
                /\ \A i, j \in 1 .. Len(new) : new[i] = new[j] => i = j
                /\ new[1] = k
                /\ SubSeq(new, 2, Len(new))
                      = Take(SelectSeq(old, LAMBDA e : e # k),
                             MAX_HISTORY_ITEMS - 1)
                /\ k \in C19_Keys(old) => C19_Keys(new) = C19_Keys(old)
                /\ (k \notin C19_Keys(old) /\ Len(old) = MAX_HISTORY_ITEMS)
                      => C19_Keys(new)
                            = (C19_Keys(old) \ {old[Len(old)]}) \cup {k}]_vars

\* a seventh key has arrived and the least recently used entry went
C19_Witness ==
    \E c \in Chats :
       /\ event.kind = "dropped" /\ event.chat = c
       /\ Len(history[c]) = MAX_HISTORY_ITEMS
       /\ history[c][1] = event.key
       /\ store[c].history = history[c]

\* this step is a call of _send_schedule whose render step raised
C20_RenderFails ==
    /\ metrics'.schedule_requests = metrics.schedule_requests + 1
    /\ send_call'.render \in {"PowerOnClientError", "Exception"}

\* what the claim says of such a call
C20_FallsBack ==
    LET c == send_call'.chat
        fallbacks == SelectSeq(bot', LAMBDA msg : msg.text = "fallback")
    IN /\ ~send_call'.raised
       /\ Len(fallbacks) = 1
       /\ fallbacks[1].method = "send_message"
       /\ fallbacks[1].link = ManualLink
       /\ send_call'.entry.gpv # "" => fallbacks[1].gpv = send_call'.entry.gpv
       /\ metrics'.text_fallbacks = metrics.text_fallbacks + 1
       /\ metrics'.schedule_failures = metrics.schedule_failures + 1
       /\ metrics'.schedule_success = metrics.schedule_success
       /\ \A i \in 1 .. Len(bot') : bot'[i].method # "send_photo"
       /\ history'[c] = history[c]
       /\ auto_update'[c].last_signature = auto_update[c].last_signature
       /\ store'[c] = store[c]

C17_RoundTrip ==
    [][(/\ store_call.op = "replace_all"
        /\ ~store_call.raised
        /\ WellFormed(store_call.payload)
        /\ store_call'.op = "load_all"
        /\ ~store_call'.raised)
          => /\ store_call'.result = store_call.payload
             /\ DOMAIN user_state = DOMAIN store_call.payload]_vars

\* load_all has returned a map of two subscribers, one of them with history
\* and settings
C17_Witness ==
    /\ store_call.op = "load_all"
    /\ ~store_call.raised
    /\ DOMAIN store_call.result = ChatKeys
    /\ store_call.result["1"] # EmptyRecord
    /\ store_call.result["1"] \in Records
    /\ store_call.result["2"] = EmptyRecord

\* the first tier that yields a map, in the order primary document, backup
\* document, mirror, empty map
C16_FirstTier(primary, backup, table) ==
    IF primary.kind = "dict" THEN primary.map
    ELSE IF backup.kind = "dict" THEN backup.map
    ELSE load_all(table)

\* C16 as stated: a load with nothing in memory takes the subscriber map from
\* the first tier that yields it, primary document, backup document, mirror,
\* empty map; a missing, unparsable or malformed primary falls through to the
\* backup, and such a backup to the mirror; the call raises nothing.
C16_LoadOrder ==
    [][(store_call'.op = "_load_users_payload" /\ _users_payload = <<>>)
          => /\ ~store_call'.raised
             /\ _users_payload' =
                   C16_FirstTier(users_json, users_json_bak, user_state)]_vars

\* thread t takes, in this step, the statement of the persistence layer at
\* one of the positions pcs
C15_Takes(t, pcs) == saver[t].pc \in pcs /\ saver'[t] # saver[t]

\* C15: a failure of a persistence step of the worker's save (the write of
\* the primary document, the backup copy, the mirror upsert, the mirror
\* replace) never ends the scheduler loop and leaves the state in memory as
\* it was, and a save of the worker that succeeds writes the state in memory
\* to the primary document.
C15_PersistenceFailureSwallowed ==
    [][/\ saver'["worker"].pc # "dead"
       /\ (/\ C15_Takes("worker", {"line 214", "line 188", "line 191",
                                   "line 195", "line 196"})
           /\ store_call'.raised)
          => auto_update' = auto_update /\ _users_payload' = _users_payload
       /\ (C15_Takes("worker", {"line 196"}) /\ ~store_call'.raised)
          => LET key == ToString(saver["worker"].chat) IN
             /\ users_json'.kind = "dict"
             /\ key \in DOMAIN users_json'.map
             /\ users_json'.map[key].auto_update.failures
                   = auto_update'[saver["worker"].chat].failures]_vars

\* C18: every step that changes the payload in memory, a document or the
\* mirror is taken by the thread that holds _users_payload_lock, and no
\* document is written from the payload while another thread is between two
\* assignments to a record of it.
C18_SingleLock ==
    [][/\ (\/ _users_payload' # _users_payload
           \/ user_state' # user_state
           \/ users_json' # users_json
           \/ users_json_bak' # users_json_bak
           \/ users_json_tmp' # users_json_tmp)
          => \E t \in Threads :
                _users_payload_lock = t /\ saver'[t] # saver[t]
       /\ \A t \in Threads :
             (C15_Takes(t, {"line 188"}) /\ ~store_call'.raised)
                => \A u \in Threads : saver[u].pc # "line 787"]_vars

(***************************************************************************)
(* Claims on the sweep of the cache directory                              *)
(***************************************************************************)
\* the number of files of the directory dir with an mtime in S
C21_Count(dir, S) ==
    LET RECURSIVE Sum(_)
        Sum(T) == IF T = {} THEN 0
                  ELSE LET m == CHOOSE x \in T : TRUE IN dir[m] + Sum(T \ {m})
    IN Sum(S)

\* this step is a call of _cleanup_cache_files that was not throttled
C21_Sweeps ==
    /\ CleanupDue(now)
    /\ ret'.kind = "swept"
    /\ ret'.before = files
    /\ _last_cache_cleanup_ts' = now

\* what the claim says of the directory before and after a sweep at time t
C21_Swept(before, after, t) ==
    LET old == {m \in DOMAIN before : t - m > CACHE_MAX_FILE_AGE_SECONDS}
        young == DOMAIN before \ old
        remaining == C21_Count(before, young)
    IN /\ \A m \in old : after[m] = 0
       /\ \A m \in young : after[m] <= before[m]
       /\ remaining <= CACHE_MAX_FILES
             => \A m \in young : after[m] = before[m]
       /\ remaining > CACHE_MAX_FILES
             => /\ C21_Count(after, young) = CACHE_MAX_FILES
                /\ \A m1, m2 \in young :
                      (m1 < m2 /\ after[m1] > 0) => after[m2] = before[m2]

C23_EntryRefreshed ==
    [][(event' # event /\ event'.kind = "entry"
           /\ _entry_ids(send_call'.item.cache_key) # <<>>)
          => /\ ~send_call'.raised
             /\ send_call'.entry.cache_key = send_call'.item.cache_key
             /\ send_call'.entry.gpv =
                   IF send_call'.api \in {"", "down"}
                   THEN send_call'.item.gpv
                   ELSE send_call'.api]_vars

(***************************************************************************)
(* Claims on a round of the auto-update worker                             *)
(***************************************************************************)
\* this step starts a round of the worker for chat c: a due entry of an
\* enabled chat was popped and found valid
C24_Processes(c) == event' # event /\ event'.kind = "round" /\ event'.chat = c

\* the heap holds the entry of chat c at its next_run_ts
C24_Queued(heap, settings, c) ==
    \E i \in 1 .. Len(heap) : heap[i] = <<settings[c].next_run_ts, c>>

\* C24: the step that starts a round at time now sets next_run_ts to
\* now + interval and pushes (next_run_ts, chat) in place of the entry
\* popped, before any address is rendered; the heap holds that entry through
\* the rest of the round, whether its renders and deliveries succeed, fail
\* or no address is found.
C24_RequeuedFirst ==
    /\ [][\A c \in Chats :
             C24_Processes(c) =>
                /\ auto_update'[c].next_run_ts = now + auto_update[c].interval
                /\ C24_Queued(_auto_update_heap', auto_update', c)
                /\ Len(_auto_update_heap') = Len(_auto_update_heap)
                /\ rendered' = rendered /\ deliveries' = deliveries]_vars
    /\ [](worker.pc \in {"item", "save", "dead"}
             => C24_Queued(_auto_update_heap, auto_update, worker.chat))

\* a render of the round failed, or its delivery ended the thread, and the
\* chat is queued for the next round
C24_Witness ==
    /\ worker.pc \in {"item", "save", "dead"}
    /\ event.kind \in {"render_failed", "deliver_failed"}
    /\ C24_Queued(_auto_update_heap, auto_update, worker.chat)

\* C25: while the earliest entry of the heap is not due the worker changes
\* nothing: the heap, the settings, the histories, the saved records and the
\* photos sent stay as they are and no round starts; a round starts only on
\* an entry that is due.
C25_NotBeforeDue ==
    [][/\ (/\ worker.pc = "sleep"
           /\ _auto_update_heap # <<>>
           /\ IF _auto_update_heap = <<>> THEN FALSE
              ELSE Head(_auto_update_heap)[1] > now)
          => UNCHANGED <<_auto_update_heap, auto_update, history, store,
                         deliveries, rendered, worker, event>>
       /\ (event' # event /\ event'.kind \in {"round", "dropped"})
          => IF _auto_update_heap = <<>> THEN FALSE
             ELSE Head(_auto_update_heap)[1] <= now]_vars

\* the worker sleeps on a heap whose earliest entry is not due, after a
\* round that was
C25_Witness ==
    /\ worker.pc = "sleep"
    /\ event.kind # "none"
    /\ _auto_update_heap # <<>>
    /\ IF _auto_update_heap = <<>> THEN FALSE
       ELSE Head(_auto_update_heap)[1] > now

\* C26: the addresses a round checks are the chat's selected_keys, in their
\* order, when there are any, else the first entry of its history; never
\* more than MAX_HISTORY_ITEMS.
C26_WatchSet ==
    [][\A c \in Chats :
          C24_Processes(c) =>
             LET processed == IF worker'.pc = "item" THEN worker'.items ELSE <<>>
                 selected == auto_update[c].selected_keys
             IN /\ Len(processed) <= MAX_HISTORY_ITEMS
                /\ processed = IF selected # <<>>
                               THEN Take(selected, MAX_HISTORY_ITEMS)
                               ELSE Take(history[c], 1)]_vars

\* C27: a render that fails for one address adds 1 to failures and leaves
\* the signatures and notify_timestamps as they were, the round goes on to
\* the next address, and no later step of the round ends the thread before
\* the chat is saved.
C27_RenderFailureCaught ==
    [][/\ \A c \in Chats :
             (event' # event /\ event'.kind = "render_failed" /\ event'.chat = c)
                => /\ auto_update'[c].failures = auto_update[c].failures + 1
                   /\ auto_update'[c].last_signatures = auto_update[c].last_signatures
                   /\ auto_update'[c].last_signature = auto_update[c].last_signature
                   /\ auto_update'[c].notify_timestamps
                         = auto_update[c].notify_timestamps
                   /\ worker' = NextItem
       /\ (event.kind = "render_failed" /\ worker.pc = "item")
             => worker'.pc # "dead"]_vars

\* C28: within a round the chat is saved only by the step at its end: no
\* step that handles an address changes the saved record.
C28_PersistOnce ==
    [][\A c \in Chats :
          store'[c] # store[c]
             => \/ worker.pc = "save" /\ worker.chat = c
                \/ C24_Processes(c) /\ worker'.pc = "sleep"]_vars

\* the signature recorded for address k in a settings dict, "" when none
C29_Recorded(settings, k) ==
    IF k \in DOMAIN settings.last_signatures
    THEN settings.last_signatures[k] ELSE ""

\* this step is a delivery attempt of chat c for address k: the photo of
\* the render went to the bot, whether the calls succeeded or raised
C29_Attempts(c, k) ==
    /\ event' # event
    /\ event'.kind \in {"delivered", "deliver_failed"}
    /\ event'.chat = c /\ event'.key = k

\* C29: a signature enters last_signatures (or last_signature) in memory
\* only in a step that attempts the delivery of the render with that
\* signature, and the saved record only takes the signatures memory holds:
\* whatever the point at which the process ends, the record read at the next
\* start holds no signature whose delivery was not attempted.
C29_AtLeastOnce ==
    [][\A c \in Chats :
          /\ \A k \in WatchedKeys :
                /\ C29_Recorded(auto_update'[c], k) # C29_Recorded(auto_update[c], k)
                      => /\ C29_Attempts(c, k)
                         /\ C29_Recorded(auto_update'[c], k) = rendered'[c][k].sig
                /\ C29_Recorded(store'[c].auto_update, k)
                         # C29_Recorded(store[c].auto_update, k)
                      => C29_Recorded(store'[c].auto_update, k)
                            = C29_Recorded(auto_update'[c], k)
          /\ auto_update'[c].last_signature # auto_update[c].last_signature
                => \E k \in WatchedKeys :
                      /\ C29_Attempts(c, k)
                      /\ auto_update'[c].last_signature = rendered'[c][k].sig
          /\ store'[c].auto_update.last_signature
                   # store[c].auto_update.last_signature
                => store'[c].auto_update.last_signature
                      = auto_update'[c].last_signature]_vars

\* the photo of a changed schedule was sent, the second call raised, and
\* the signature is in no record: the next start notifies again
C29_Witness ==
    \E c \in Chats, k \in WatchedKeys :
       /\ event.kind = "deliver_failed" /\ event.key = k
       /\ deliveries[c] # <<>>
       /\ IF deliveries[c] = <<>> THEN FALSE
          ELSE deliveries[c][Len(deliveries[c])] = now
       /\ rendered[c][k].sig # ""
       /\ C29_Recorded(auto_update[c], k) # rendered[c][k].sig
       /\ C29_Recorded(store[c].auto_update, k) # rendered[c][k].sig

\* thread t executes the statement at pc of _save_users_payload
C30_Takes(t, pc) == saver[t].pc = pc /\ saver'[t] # saver[t]

\* the statement thread t executes raises, and the except branch of lines
\* 197-203 ends the save
C30_Fails(t, pc) ==
    C30_Takes(t, pc) /\ store_call'.raised /\ store_call'.op = pc

\* the three writes of a save, in the order of lines 188, 191 and 195, each
\* on what the one before left
C30_InOrder(t) ==
    /\ C30_Takes(t, "line 188") /\ ~C30_Fails(t, "line 188")
          => /\ users_json_tmp' = Document("dict", _users_payload)
             /\ UNCHANGED <<users_json, users_json_bak>>
    /\ C30_Takes(t, "line 191") /\ ~C30_Fails(t, "line 191")
          => /\ users_json_tmp # Missing
             /\ users_json_bak' = users_json
             /\ UNCHANGED <<users_json, users_json_tmp>>
    /\ C30_Takes(t, "line 195") /\ ~C30_Fails(t, "line 195")
          => /\ users_json_bak = users_json
             /\ users_json' = users_json_tmp
             /\ users_json'.kind = "dict"
             /\ users_json_tmp' = Missing
             /\ UNCHANGED users_json_bak
    /\ (\A u \in Threads : ~C30_Takes(u, "line 195"))
          => UNCHANGED users_json
    /\ (\A u \in Threads : ~C30_Takes(u, "line 191"))
          => UNCHANGED users_json_bak

\* the save of thread t ends without an exception: the primary is the
\* document renamed over it and the backup what the primary was before
C30_Succeeds(t) ==
    C30_Takes(t, "line 196") /\ ~C30_Fails(t, "line 196")
       => /\ store_call'.op = "saved"
          /\ users_json'.kind = "dict"
          /\ users_json_tmp' = Missing
          /\ UNCHANGED <<users_json, users_json_bak>>

\* a statement up to the rename raises: no temp file, the primary as before
C30_FailsEarly(t) ==
    \A pc \in {"line 188", "line 191", "line 195"} :
       C30_Fails(t, pc) => users_json_tmp' = Missing /\ UNCHANGED users_json

C31_MirrorEqualsPrimary ==
    (\A t \in Threads : saver[t].pc \in {"idle", "dead"})
       => load_all(user_state)
             = (IF users_json.kind = "dict" THEN users_json.map ELSE <<>>)

\* C32: a round renders, for a subscriber with silent = true, an address
\* that has no entry in last_signatures: the previous signature is empty,
\* changed is true and the round goes on to the notification gate (it does
\* not end the item as unchanged), whatever last_signature holds.
C32_FirstRenderChanged ==
    [][\A c \in Chats, k \in WatchedKeys :
          (/\ event' # event
           /\ event'.chat = c /\ event'.key = k
           /\ event'.kind \in {"rendered", "denied", "delivered",
                               "deliver_failed"}
           /\ auto_update[c].silent
           /\ k \notin DOMAIN auto_update[c].last_signatures)
          => event'.kind # "rendered"]_vars

\* C33: the interval in the settings of every subscriber is at least 10
\* seconds in every state; every record the program writes holds an interval
\* of at least 10; every next_run_ts the program computes lies at least 10
\* seconds after the time of the step; and an interval typed that is no
\* number or below 10 changes neither the settings, the queue nor the
\* saved record.
C33_IntervalAtLeast10 ==
    /\ [](\A c \in Chats : auto_update[c].interval >= 10)
    /\ [][\A c \in Chats :
             /\ store'[c] # store[c]
                   => store'[c].auto_update.interval >= 10
             /\ (/\ auto_update'[c].next_run_ts # auto_update[c].next_run_ts
                 /\ auto_update'[c].next_run_ts # 0)
                   => auto_update'[c].next_run_ts >= now + 10
             /\ (/\ event' # event
                 /\ event'.kind = "auto_interval_input"
                 /\ event'.chat = c
                 /\ (event'.key \in DOMAIN IntOf => IntOf[event'.key] < 10))
                   => UNCHANGED <<auto_update, _auto_update_heap, store>>]_vars

\* users.json holds an interval of 5 seconds, the settings hydrated from it
\* hold 10, and the subscriber has just typed 5
C33_Witness ==
    \E c \in Chats :
       /\ store[c].auto_update.interval = 5
       /\ auto_update[c].interval = 10
       /\ auto_update[c].enabled
       /\ event.kind = "auto_interval_input" /\ event.key = "5"

\* C34: a step in which a call returns the path of the record in _cache as
\* a hit (at line 231, or at line 239 after the wait for the lock) is taken
\* at a time before the record's expires_at.
C34_NoExpiredHit ==
    [][(/\ ret'.kind = "path" /\ ret'.hit
        /\ \/ ncalls' # ncalls
           \/ \E c \in Coros : task[c].pc = "waiting" /\ task'[c].pc = "idle")
       => /\ ret'.key \in DOMAIN _cache
          /\ _cache[ret'.key].expires_at > now]_vars

\* C35: while a subscriber is disabled (auto_off has completed and no
\* auto_on followed) no step of the worker renders or delivers for the
\* subscriber, also when the worker popped the subscriber's entry before
\* the disable; and whenever the worker is idle a disabled subscriber has
\* next_run_ts = 0.
C35_DisabledIsQuiet ==
    /\ [][\A c \in Chats :
             (/\ event' # event
              /\ event'.chat = c
              /\ event'.kind \in {"rendered", "render_failed", "denied",
                                  "delivered", "deliver_failed"})
             => auto_update[c].enabled]_vars
    /\ [](worker.pc = "sleep"
            => \A c \in Chats :
                  ~auto_update[c].enabled => auto_update[c].next_run_ts = 0)

\* the worker's step renders address k of chat c
C36_Renders(c, k) ==
    /\ event' # event
    /\ event'.chat = c /\ event'.key = k
    /\ event'.kind \in {"rendered", "denied", "delivered", "deliver_failed"}

\* the signature of the last photo notified for address k, "" when none
C36_LastNotified(settings, k) ==
    IF k \in DOMAIN settings.last_signatures
    THEN settings.last_signatures[k] ELSE ""

\* a render with a changed signature whose notification is suppressed
\* delivers nothing and leaves the signatures and the history as they were
C36_Suppressed(c, k) ==
    (C36_Renders(c, k) /\ event'.kind = "denied")
       => /\ deliveries' = deliveries
          /\ auto_update'[c].last_signatures = auto_update[c].last_signatures
          /\ auto_update'[c].last_signature = auto_update[c].last_signature
          /\ history' = history

\* the render of the round before was a change whose notification was
\* suppressed; this round renders the address with notifying allowed and a
\* signature other than the last notified one: it is delivered
C36_DeliveredLater(c, k) ==
    (/\ C36_Renders(c, k)
     /\ rendered[c][k].sig # ""
     /\ ~rendered[c][k].ok
     /\ rendered[c][k].sig # C36_LastNotified(auto_update[c], k)
     /\ _can_notify_now(auto_update[c], now).ok
     /\ rendered'[c][k].sig # C36_LastNotified(auto_update[c], k))
       => event'.kind \in {"delivered", "deliver_failed"}

\* C36: a suppressed change delivers nothing and leaves the recorded
\* signature, the notify-timestamp list and the history unchanged, and the
\* change is delivered at the first later round in which notifying is
\* allowed and the image differs from the last notified one.
C36_SuppressedStaysPending ==
    [][\A c \in Chats, k \in WatchedKeys :
          /\ C36_Suppressed(c, k)
          /\ (C36_Renders(c, k) /\ event'.kind = "denied")
                => auto_update'[c].notify_timestamps
                      = auto_update[c].notify_timestamps
          /\ C36_DeliveredLater(c, k)]_vars

\* the render of the worker for chat c failed in this step
C37_RenderFailed(c) ==
    event' # event /\ event'.chat = c /\ event'.kind = "render_failed"

\* the counter of chat c changes only by a failed render, which adds one,
\* or by a successful render, which sets it to 0: no other step of the
\* worker, the clock or the flags touches it, and a step that opens the
\* circuit is a failed render that leaves the counter at its new value
C37_OnlySuccessResets(c) ==
    /\ C37_RenderFailed(c)
          => auto_update'[c].failures = auto_update[c].failures + 1
    /\ auto_update'[c].failures # auto_update[c].failures
          => \/ /\ C37_RenderFailed(c)
                /\ auto_update'[c].failures = auto_update[c].failures + 1
             \/ /\ event' # event /\ event'.chat = c
                /\ event'.kind \in {"rendered", "denied", "delivered",
                                    "deliver_failed"}
                /\ auto_update'[c].failures = 0
    /\ auto_update'[c].text_mode_until # auto_update[c].text_mode_until
          => /\ C37_RenderFailed(c)
             /\ auto_update'[c].failures >= AUTO_UPDATE_FAILURE_THRESHOLD

\* a render fails after a cooldown has ended with no success since
C37_FailsAfterCooldown(c) ==
    /\ C37_RenderFailed(c)
    /\ auto_update[c].failures >= AUTO_UPDATE_FAILURE_THRESHOLD
    /\ auto_update[c].text_mode_until # 0
    /\ auto_update[c].text_mode_until <= now

C38_CrashSafeSave ==
    /\ store_call.op \in {"crash", "startup"}
          => /\ users_json.kind \in {"missing", "dict"}
             /\ MapOf(users_json) \in {store_call.payload, store_call.result}
    /\ store_call.op = "startup"
          => /\ ~store_call.raised
             /\ _users_payload \in {store_call.payload, store_call.result}

\* the queue holds an entry of chat c whose dueAt is the chat's next_run_ts
C39_Queued(c) ==
    \E i \in 1 .. Len(_auto_update_heap) :
       _auto_update_heap[i] = <<auto_update[c].next_run_ts, c>>

\* C39: whenever the worker is between two rounds the queue holds, for every
\* enabled subscriber, an entry at the subscriber's next_run_ts, after
\* hydration and under every order of auto_on, auto_off, typed intervals and
\* rounds; and the worker never discards that entry: a due entry it drops
\* belongs to a disabled subscriber or is not at the subscriber's
\* next_run_ts, so the entry at next_run_ts starts a round when it is popped.
C39_EnabledIsQueued ==
    /\ [](worker.pc = "sleep"
            => \A c \in Chats : auto_update[c].enabled => C39_Queued(c))
    /\ [][\A c \in Chats :
             (event' # event /\ event'.kind = "dropped" /\ event'.chat = c)
                => \/ ~auto_update[c].enabled
                   \/ Head(_auto_update_heap)[1] # auto_update[c].next_run_ts]_vars

\* a subscriber who typed an interval of 45 seconds has had a round since
\* and is queued for the next one
C39_Witness ==
    \E c \in Chats :
       /\ worker.pc = "sleep"
       /\ event.kind = "delivered" /\ event.chat = c
       /\ auto_update[c].enabled
       /\ auto_update[c].interval = 45
       /\ auto_update[c].next_run_ts > now
       /\ C39_Queued(c)
=============================================================================
